---- MODULE Spec2Model ----
(***************************************************************************)
(* State-machine model of the supply-chain scripts of feelgood-api:        *)
(*   scripts/compare_scans.py        (scan differ)                         *)
(*   scripts/generate_vex.py         (VEX classifier and document builder) *)
(*   scripts/verify_attestations.py  (attestation chain verifier)          *)
(* and of the web service src/app.py with src/phrases.py.                  *)
(* Every run of the model is one invocation of one of the scripts, or the  *)
(* service answering requests: Init draws the program and its inputs, the  *)
(* actions are the script's steps or the handling of one request.          *)
(* Strings are TLA+ strings; the string operations of the code (lower,     *)
(* upper, substring test, replace, regular-expression match) are computed  *)
(* character by character.                                                 *)
(***************************************************************************)
EXTENDS Integers, Sequences, FiniteSets, TLC

VARIABLES
    prog,          \* which script this run executes
    pc,            \* position of the script
    exit_status,   \* process exit status, -1 while running
    previous_file, \* compare_scans: --previous file ([state, entries])
    current_file,  \* compare_scans: --current file
    comparison,    \* compare_scans: the report written to --output, or NoValue
    cmp_locals,    \* compare_scans: the local key sets of compare_scans
    baseline,      \* compare_scans: risk_level of the preceding run, "none" on a first run
    trivy_file,    \* generate_vex: --trivy-results file ([state, entries])
    image_ref,     \* generate_vex: --image-ref, "" when not given
    vex_trace,     \* generate_vex: per vulnerability, the locals of analyze_vulnerability
    vex_doc,       \* generate_vex: the document built, or NoValue
    pkg_name,      \* create_product_identifier: its pkg_name argument
    product_id,    \* create_product_identifier: its result, "" before the call
    verifier,      \* verify_attestations: [image_ref, repository] given to AttestationVerifier
    verified_components, \* verify_attestations: self.verified_components
    all_passed,    \* verify_attestations: main's all_passed
    results,       \* verify_attestations: what each check returned, "pending" before it ran
    external_calls, \* verify_attestations: number of subprocess.run calls made so far
    last_call,     \* verify_attestations: the latest _safe_subprocess_run call and its outcome
    sbom_loop,     \* verify_attestations: [index, verified_sboms, attestations, same_output] of verify_multi_layer_sboms
    report,        \* verify_attestations: the report of generate_verification_report, or NoValue
    aborted,       \* verify_attestations: the run ended with an uncaught exception
    http_request,  \* app: the request being answered, or NoValue
    phrase_result, \* app: what the latest get_phrase call returned or raised, or NoValue
    http_response  \* app: the response sent for http_request, or NoValue

compare_vars == <<previous_file, current_file, comparison, cmp_locals, baseline>>
vex_vars == <<trivy_file, image_ref, vex_trace, vex_doc, pkg_name, product_id>>

verify_vars == <<verifier, verified_components, all_passed, results, external_calls,
                 last_call, sbom_loop, report, aborted>>

app_vars == <<http_request, phrase_result, http_response>>

vars == <<prog, pc, exit_status, compare_vars, vex_vars, verify_vars, app_vars>>

NoValue == [none |-> TRUE]

-----------------------------------------------------------------------------
(* Strings *)

Ch(s, i) == SubSeq(s, i, i)

StartsWith(s, p) == Len(p) <= Len(s) /\ SubSeq(s, 1, Len(p)) = p

\* Python's  sub in s
Contains(s, sub) ==
    \E i \in 1..(Len(s) - Len(sub) + 1) : SubSeq(s, i, i + Len(sub) - 1) = sub

UpperLetters == "ABCDEFGHIJKLMNOPQRSTUVWXYZ"
LowerLetters == "abcdefghijklmnopqrstuvwxyz"
Digits == "0123456789"

CharsOf(s) == {Ch(s, i) : i \in 1..Len(s)}

IndexIn(s, c) == CHOOSE i \in 1..Len(s) : Ch(s, i) = c

LowerCh(c) ==
    IF c \in CharsOf(UpperLetters) THEN Ch(LowerLetters, IndexIn(UpperLetters, c)) ELSE c

UpperCh(c) ==
    IF c \in CharsOf(LowerLetters) THEN Ch(UpperLetters, IndexIn(LowerLetters, c)) ELSE c

RECURSIVE Lower(_)
Lower(s) == IF Len(s) = 0 THEN "" ELSE LowerCh(Ch(s, 1)) \o Lower(SubSeq(s, 2, Len(s)))

RECURSIVE Upper(_)
Upper(s) == IF Len(s) = 0 THEN "" ELSE UpperCh(Ch(s, 1)) \o Upper(SubSeq(s, 2, Len(s)))

\* Python's  s.replace(old, ""): left to right, non-overlapping, one pass
RECURSIVE RemoveAll(_, _)
RemoveAll(s, old) ==
    IF Len(s) < Len(old) \/ Len(old) = 0 THEN s
    ELSE IF StartsWith(s, old) THEN RemoveAll(SubSeq(s, Len(old) + 1, Len(s)), old)
    ELSE Ch(s, 1) \o RemoveAll(SubSeq(s, 2, Len(s)), old)

\* dict.get(field, default)
Get(d, field, default) == IF field \in DOMAIN d THEN d[field] ELSE default

Range(f) == {f[i] : i \in DOMAIN f}

\* the sequences that list the set S once each: the orders in which Python may
\* iterate a set of strings (the order depends on the per-process string hash)
Orders(S) ==
    {q \in [1..Cardinality(S) -> S] : \A i, j \in 1..Cardinality(S) : i # j => q[i] # q[j]}

SeqsUpTo(S, n) == UNION {[1..k -> S] : k \in 0..n}

-----------------------------------------------------------------------------
(* compare_scans.py *)

MaxPrevVulns == 2
MaxCurVulns == 2

severity_order(sev) ==
    CASE sev = "CRITICAL" -> 5
      [] sev = "HIGH" -> 4
      [] sev = "MEDIUM" -> 3
      [] sev = "LOW" -> 2
      [] sev = "NEGLIGIBLE" -> 1
      [] OTHER -> 0

\* identities used by the scan entries of the model
ScanIdentities ==
    { [VulnerabilityID |-> "CVE-1", PkgName |-> "a", InstalledVersion |-> "1", Target |-> "x"],
      [VulnerabilityID |-> "CVE-2", PkgName |-> "a", InstalledVersion |-> "1", Target |-> "x"],
      [VulnerabilityID |-> "CVE-2", PkgName |-> "b", InstalledVersion |-> "1"] }

ScanEntry(ident, sev, fixed) == ident @@ [Severity |-> sev, FixedVersion |-> fixed]

\* JSON null
JsonNull == [json_null |-> TRUE]

\* JSON numbers (scores in tenths) and JSON strings where a score is expected
Num(n) == [num |-> n]

Str(text) == [str |-> text]

\* entries of a parsed document that are not as the scanner writes them: one
\* with no field of its own (only the Target of its result), one whose CVSS is
\* null, one that is null itself
EntryWithoutFields == [Target |-> "x"]

EntryWithNullCvss ==
    [ VulnerabilityID |-> "CVE-3", PkgName |-> "a", InstalledVersion |-> "1", Target |-> "x",
      Severity |-> "LOW", CVSS |-> JsonNull ]

EntryWithScores ==
    [ VulnerabilityID |-> "CVE-4", PkgName |-> "a", InstalledVersion |-> "1", Target |-> "x",
      Severity |-> "HIGH",
      CVSS |-> [ ubuntu |-> [V3Score |-> Num(98)],
                 nvd |-> [V3Score |-> Num(0)],
                 redhat |-> [V2Score |-> Str("7.5")] ] ]

\* an entry whose first source carries a score that is text, not a number
EntryWithTextScore ==
    [ VulnerabilityID |-> "CVE-6", PkgName |-> "a", InstalledVersion |-> "1", Target |-> "x",
      Severity |-> "MEDIUM",
      CVSS |-> [ nvd |-> [V3Score |-> Str("n/a")],
                 redhat |-> [V3Score |-> Num(75)] ] ]

\* two entries that differ in package name and installed version (a version with
\* an epoch, a package name with a colon)
EntryWithEpochVersion ==
    [ VulnerabilityID |-> "CVE-5", PkgName |-> "p", InstalledVersion |-> "1:2", Target |-> "x",
      Severity |-> "CRITICAL" ]

EntryWithColonName ==
    [ VulnerabilityID |-> "CVE-5", PkgName |-> "p:1", InstalledVersion |-> "2", Target |-> "x",
      Severity |-> "LOW" ]

PrevEntries ==
    { ScanEntry(i, IF i.PkgName = "a" THEN "HIGH" ELSE "LOW", "") : i \in ScanIdentities }
    \cup {EntryWithNullCvss}

CurEntries ==
    { ScanEntry(i, s, "2") : i \in ScanIdentities, s \in {"CRITICAL", "HIGH", "LOW"} }
    \cup { EntryWithoutFields, EntryWithNullCvss, EntryWithScores, JsonNull,
           EntryWithEpochVersion, EntryWithColonName, EntryWithTextScore }

\* a scan file: missing, unparsable, or a parsed document given as the sequence
\* of its vulnerability entries in the order of the two nested loops of
\* extract_vulnerabilities, each entry carrying its result's Target
ScanFiles(entries, n) ==
    {[state |-> "missing", entries |-> <<>>], [state |-> "unparsable", entries |-> <<>>]}
    \cup {[state |-> "ok", entries |-> es] : es \in SeqsUpTo(entries, n)}

vuln_key(vuln) ==
    Get(vuln, "VulnerabilityID", "") \o ":" \o Get(vuln, "PkgName", "") \o ":"
        \o Get(vuln, "InstalledVersion", "") \o ":" \o Get(vuln, "Target", "unknown")

\* Python's truth value of a JSON value read with dict.get (None when absent)
Truthy(v) ==
    IF "num" \in DOMAIN v THEN v.num # 0
    ELSE IF "str" \in DOMAIN v THEN v.str # ""
    ELSE FALSE

\* float(score) in tenths: a number as it is, a string of the form d.d parsed,
\* any other string of the model raises ValueError
float_of(v) ==
    IF "num" \in DOMAIN v THEN [raised |-> FALSE, score |-> v.num]
    ELSE IF /\ Len(v.str) = 3 /\ Ch(v.str, 2) = "."
            /\ Ch(v.str, 1) \in CharsOf(Digits) /\ Ch(v.str, 3) \in CharsOf(Digits)
    THEN [ raised |-> FALSE,
           score |-> 10 * (IndexIn(Digits, Ch(v.str, 1)) - 1) + IndexIn(Digits, Ch(v.str, 3)) - 1 ]
    ELSE [raised |-> TRUE, score |-> 0]

\* the loop of get_cvss_score over the sources left to probe
RECURSIVE probe_scores(_, _)
probe_scores(sources, cvss) ==
    IF sources = <<>> THEN [raised |-> FALSE, score |-> 0]
    ELSE IF Head(sources) \notin DOMAIN cvss THEN probe_scores(Tail(sources), cvss)
    ELSE IF cvss[Head(sources)] = JsonNull THEN [raised |-> TRUE, score |-> 0]
    ELSE LET v3 == Get(cvss[Head(sources)], "V3Score", JsonNull)
             score == IF Truthy(v3) THEN v3 ELSE Get(cvss[Head(sources)], "V2Score", JsonNull)
         IN  IF Truthy(score) THEN float_of(score)
             ELSE probe_scores(Tail(sources), cvss)

\* get_cvss_score(vuln): the score in tenths, or raised when the call raises
\* (source in None: TypeError; None.get: AttributeError; float: ValueError)
get_cvss_score(vuln) ==
    LET cvss == Get(vuln, "CVSS", <<>>)
    IN  IF cvss = JsonNull THEN [raised |-> TRUE, score |-> 0]
        ELSE probe_scores(<<"nvd", "redhat", "ubuntu">>, cvss)

\* the body of the inner loop of extract_vulnerabilities raises for this entry
\* (vuln.get on a value that is not an object, or get_cvss_score)
entry_raises(vuln) == vuln = JsonNull \/ get_cvss_score(vuln).raised

vuln_record(vuln) ==
    [ id |-> Get(vuln, "VulnerabilityID", ""),
      package |-> Get(vuln, "PkgName", ""),
      installed_version |-> Get(vuln, "InstalledVersion", ""),
      fixed_version |-> Get(vuln, "FixedVersion", ""),
      severity |-> Get(vuln, "Severity", "UNKNOWN"),
      target |-> Get(vuln, "Target", "unknown"),
      cvss_score |-> get_cvss_score(vuln).score ]

\* vulnerabilities[key] = value on a dict kept as the sequence of its items in
\* insertion order: an existing key keeps its place and takes the new value
DictPut(d, k, v) ==
    IF \E i \in 1..Len(d) : d[i].key = k
    THEN [i \in 1..Len(d) |-> IF d[i].key = k THEN [key |-> k, value |-> v] ELSE d[i]]
    ELSE Append(d, [key |-> k, value |-> v])

DictKeys(d) == {d[i].key : i \in 1..Len(d)}

DictGet(d, k) == d[CHOOSE i \in 1..Len(d) : d[i].key = k].value

RECURSIVE extract_from(_, _)
extract_from(entries, vulnerabilities) ==
    IF entries = <<>> THEN vulnerabilities
    ELSE extract_from(Tail(entries),
                      DictPut(vulnerabilities, vuln_key(Head(entries)), vuln_record(Head(entries))))

extract_vulnerabilities(entries) == extract_from(entries, <<>>)

\* extract_vulnerabilities(entries) raises instead of returning
extract_raises(entries) == \E i \in 1..Len(entries) : entry_raises(entries[i])

\* the try/except around open + json.load + extract_vulnerabilities: any
\* exception leaves the empty dict
load_scan(file) ==
    IF file.state = "ok" /\ ~extract_raises(file.entries)
    THEN extract_vulnerabilities(file.entries)
    ELSE <<>>

CountSeverity(vulns, sev) == Cardinality({i \in 1..Len(vulns) : vulns[i].severity = sev})

severity_counts(vulns) ==
    [ critical |-> CountSeverity(vulns, "CRITICAL"),
      high |-> CountSeverity(vulns, "HIGH"),
      medium |-> CountSeverity(vulns, "MEDIUM"),
      low |-> CountSeverity(vulns, "LOW"),
      negligible |-> CountSeverity(vulns, "NEGLIGIBLE") ]

FirstListed(vulns) == vulns[1]

\* max(new_vulns, key=...): the first item of the greatest rank
MaxBySeverity(vulns) ==
    vulns[CHOOSE i \in 1..Len(vulns) :
            /\ \A j \in 1..Len(vulns) :
                  severity_order(vulns[j].severity) <= severity_order(vulns[i].severity)
            /\ \A j \in 1..(i - 1) :
                  severity_order(vulns[j].severity) < severity_order(vulns[i].severity)]

risk_assessment_one_critical(critical_new, high_new, n_new) ==
    IF critical_new = 1
    THEN [risk_level |-> "CRITICAL",
          recommended_action |-> "Immediate attention required - critical vulnerabilities detected"]
    ELSE IF high_new > 0
    THEN [risk_level |-> "HIGH",
          recommended_action |-> "High priority vulnerabilities require prompt remediation"]
    ELSE IF n_new > 0
    THEN [risk_level |-> "MEDIUM",
          recommended_action |-> "New vulnerabilities detected - review and plan remediation"]
    ELSE [risk_level |-> "LOW", recommended_action |-> "No new vulnerabilities detected"]

risk_assessment_high_first(critical_new, high_new, n_new) ==
    IF high_new > 0
    THEN [risk_level |-> "HIGH",
          recommended_action |-> "High priority vulnerabilities require prompt remediation"]
    ELSE IF critical_new > 0
    THEN [risk_level |-> "CRITICAL",
          recommended_action |-> "Immediate attention required - critical vulnerabilities detected"]
    ELSE IF n_new > 0
    THEN [risk_level |-> "MEDIUM",
          recommended_action |-> "New vulnerabilities detected - review and plan remediation"]
    ELSE [risk_level |-> "LOW", recommended_action |-> "No new vulnerabilities detected"]

risk_assessment(critical_new, high_new, n_new) ==
    IF critical_new > 0
    THEN [risk_level |-> "CRITICAL",
          recommended_action |-> "Immediate attention required - critical vulnerabilities detected"]
    ELSE IF high_new > 0
    THEN [risk_level |-> "HIGH",
          recommended_action |-> "High priority vulnerabilities require prompt remediation"]
    ELSE IF n_new > 0
    THEN [risk_level |-> "MEDIUM",
          recommended_action |-> "New vulnerabilities detected - review and plan remediation"]
    ELSE [risk_level |-> "LOW", recommended_action |-> "No new vulnerabilities detected"]

\* new_order, resolved_order: the iteration orders of the sets new_keys, resolved_keys
generate_summary(new_order, resolved_order, current_vulns, previous_vulns) ==
    LET new_vulns == [i \in 1..Len(new_order) |-> DictGet(current_vulns, new_order[i])]
        resolved_vulns ==
            [i \in 1..Len(resolved_order) |-> DictGet(previous_vulns, resolved_order[i])]
        highest == MaxBySeverity(new_vulns)
    IN  [ has_new_vulnerabilities |-> Len(new_order) > 0,
          has_resolved_vulnerabilities |-> Len(resolved_order) > 0,
          net_change |-> Len(new_order) - Len(resolved_order) ]
        @@ (IF Len(new_order) > 0
            THEN [ new_vulnerabilities_summary |-> severity_counts(new_vulns),
                   highest_severity_new |->
                       [ id |-> highest.id, severity |-> highest.severity,
                         package |-> highest.package, cvss_score |-> highest.cvss_score ] ]
            ELSE <<>>)
        @@ (IF Len(resolved_order) > 0
            THEN [resolved_vulnerabilities_summary |-> severity_counts(resolved_vulns)]
            ELSE <<>>)
        @@ risk_assessment(CountSeverity(new_vulns, "CRITICAL"),
                           CountSeverity(new_vulns, "HIGH"), Len(new_order))

categorize_by_severity(vulns) ==
    [ sev \in {vulns[i].severity : i \in 1..Len(vulns)} |->
        SelectSeq(vulns, LAMBDA v : v.severity = sev) ]

\* a diff on whole records: a record that changed counts as added and resolved
compare_keys_by_record(previous_vulns, current_vulns) ==
    LET previous_keys == DictKeys(previous_vulns)
        current_keys == DictKeys(current_vulns)
        same == {k \in previous_keys \cap current_keys :
                    DictGet(previous_vulns, k) = DictGet(current_vulns, k)}
    IN  [ previous_keys |-> previous_keys,
          current_keys |-> current_keys,
          new_vuln_keys |-> current_keys \ same,
          resolved_vuln_keys |-> previous_keys \ same,
          unchanged_vuln_keys |-> same ]

new_keys_swapped(previous_keys, current_keys) == previous_keys \ current_keys

new_keys_of(previous_keys, current_keys) == current_keys \ previous_keys

\* the local sets of compare_scans (lines 90-96)
compare_keys(previous_vulns, current_vulns) ==
    LET previous_keys == DictKeys(previous_vulns)
        current_keys == DictKeys(current_vulns)
    IN  [ previous_keys |-> previous_keys,
          current_keys |-> current_keys,
          new_vuln_keys |-> new_keys_of(previous_keys, current_keys),
          resolved_vuln_keys |-> previous_keys \ current_keys,
          unchanged_vuln_keys |-> previous_keys \cap current_keys ]

\* the report built by compare_scans from the two loaded snapshots; the three
\* orders are the iteration orders of the three key sets
build_comparison(previous_vulns, current_vulns, new_order, resolved_order, unchanged_order) ==
    LET new_list == [i \in 1..Len(new_order) |-> DictGet(current_vulns, new_order[i])]
    IN  [ comparison_metadata |->
              [ previous_scan_vulns |-> Len(previous_vulns),
                current_scan_vulns |-> Len(current_vulns),
                new_vulnerabilities_count |-> Len(new_order),
                resolved_vulnerabilities_count |-> Len(resolved_order),
                unchanged_vulnerabilities_count |-> Len(unchanged_order) ],
          new_vulnerabilities |-> new_list,
          resolved_vulnerabilities |->
              [i \in 1..Len(resolved_order) |-> DictGet(previous_vulns, resolved_order[i])],
          unchanged_vulnerabilities |->
              [i \in 1..Len(unchanged_order) |-> DictGet(current_vulns, unchanged_order[i])],
          summary |-> generate_summary(new_order, resolved_order, current_vulns, previous_vulns),
          high_priority_new_vulnerabilities |->
              SelectSeq(new_list, LAMBDA v : v.severity \in {"CRITICAL", "HIGH"}) ]
        @@ (IF Len(new_order) > 0
            THEN [new_vulnerabilities_by_severity |-> categorize_by_severity(new_list)]
            ELSE <<>>)

\* compare_scans(previous_file, current_file) leaves its result in comparison'
\* and its local key sets in cmp_locals'
compare_scans(prev, cur) ==
    LET previous_vulns == load_scan(prev)
        current_vulns == load_scan(cur)
        keys == compare_keys(previous_vulns, current_vulns)
    IN  \E new_order \in Orders(keys.new_vuln_keys),
           resolved_order \in Orders(keys.resolved_vuln_keys),
           unchanged_order \in Orders(keys.unchanged_vuln_keys) :
            /\ comparison' = build_comparison(previous_vulns, current_vulns,
                                              new_order, resolved_order, unchanged_order)
            /\ cmp_locals' = keys

CompareInit ==
    /\ previous_file \in ScanFiles(PrevEntries, MaxPrevVulns)
    /\ current_file \in ScanFiles(CurEntries, MaxCurVulns)
    /\ comparison = NoValue
    /\ cmp_locals = NoValue
    /\ baseline = "none"

CompareIdle ==
    /\ previous_file = NoValue
    /\ current_file = NoValue
    /\ comparison = NoValue
    /\ cmp_locals = NoValue
    /\ baseline = "none"

\* main, lines 213-219: a file that does not exist ends the run with status 1
CompareMissingFile ==
    /\ prog = "compare_scans" /\ pc = "main"
    /\ previous_file.state = "missing" \/ current_file.state = "missing"
    /\ pc' = "done"
    /\ exit_status' = 1
    /\ UNCHANGED <<app_vars, prog, compare_vars, vex_vars, verify_vars>>

\* main, lines 221-226: compare and write the report
CompareRun ==
    /\ prog = "compare_scans" /\ pc = "main"
    /\ previous_file.state # "missing" /\ current_file.state # "missing"
    /\ compare_scans(previous_file, current_file)
    /\ pc' = "done"
    /\ exit_status' = 0
    /\ UNCHANGED <<app_vars, prog, previous_file, current_file, baseline, vex_vars, verify_vars>>

\* the next scan of the same artifact: the current document has gained one
\* CRITICAL entry, the previous file is the same, and the tool is run again
CompareRerunWithCritical ==
    /\ prog = "compare_scans" /\ pc = "done" /\ exit_status = 0
    /\ baseline = "none"
    /\ current_file.state = "ok"
    /\ \E ident \in ScanIdentities :
         LET cur == [current_file EXCEPT
                        !.entries = Append(@, ScanEntry(ident, "CRITICAL", ""))]
         IN  /\ current_file' = cur
             /\ compare_scans(previous_file, cur)
    /\ baseline' = comparison.summary.risk_level
    /\ UNCHANGED <<app_vars, prog, pc, exit_status, previous_file, vex_vars, verify_vars>>

-----------------------------------------------------------------------------
(* generate_vex.py *)

MaxVexVulns == 1
MaxRefParts == 2
MaxNameParts == 2

VexPkgNames == {"test-lib", "MockServer", "openssl"}
VexSeverities == {"CRITICAL", "high", "MEDIUM", "LOW", "Negligible"}

\* the Vulnerabilities[] entries of the model; Title, Description and
\* FixedVersion are left out of some entries, CVSS of all but the openssl ones
VexEntries ==
    { [VulnerabilityID |-> "CVE-7", PkgName |-> n, InstalledVersion |-> "1.0", Severity |-> s]
        @@ d @@ t @@ f
        @@ (IF n = "openssl" THEN [CVSS |-> [redhat |-> [V2Score |-> 75]]] ELSE <<>>) :
        n \in VexPkgNames, s \in VexSeverities,
        d \in {<<>>, [Description |-> "Remote Denial of Service in parser"]},
        t \in {<<>>, [Title |-> "Overflow in Sample loader"]},
        f \in {<<>>, [FixedVersion |-> "1.2.4"]} }

\* --trivy-results: not given, a path that does not exist, a file that is not
\* JSON, a JSON document that is not an object (an array), or a scan document
\* given by its Vulnerabilities[] entries in loop order
TrivyFiles ==
    {[state |-> st, entries |-> <<>>] : st \in {"no_arg", "missing", "unparsable", "not_object"}}
    \cup {[state |-> "ok", entries |-> es] : es \in SeqsUpTo(VexEntries, MaxVexVulns)}

VexImageRefs == {"", "ghcr.io/org/app:v1", "pkg:docker/app@v1"}

ContainsAny(s, markers) == \E m \in markers : Contains(s, m)

dev_markers == {"test", "dev", "debug", "mock", "fixture"}

not_exploitable_patterns ==
    { "requires local access", "requires physical access", "denial of service",
      "information disclosure", "requires authenticated user" }

non_executable_patterns == {"documentation", "example", "sample"}

analysis_default(vuln) ==
    [ state |-> "under_investigation",
      justification |-> "requires_configuration",
      detail |-> "Analyzing vulnerability " \o Get(vuln, "VulnerabilityID", "")
                   \o " in component " \o Get(vuln, "PkgName", "") \o "@"
                   \o Get(vuln, "InstalledVersion", ""),
      response |-> <<"will_not_fix">> ]

rule_dev_dependency(vuln) ==
    [ state |-> "not_affected", justification |-> "code_not_present",
      detail |-> "Component " \o Get(vuln, "PkgName", "")
                   \o " is only used in development/testing environments",
      response |-> <<"will_not_fix">> ]

rule_low_severity ==
    [ state |-> "not_affected", justification |-> "protected_by_mitigating_control",
      detail |-> "Low severity vulnerability mitigated by security controls and monitoring",
      response |-> <<"will_not_fix">> ]

rule_not_exploitable ==
    [ state |-> "not_affected", justification |-> "requires_environment",
      detail |-> "Vulnerability requires specific conditions not present in production environment",
      response |-> <<"will_not_fix">> ]

rule_non_executable ==
    [ state |-> "not_affected", justification |-> "code_not_present",
      detail |-> "Vulnerability in non-executable content",
      response |-> <<"will_not_fix">> ]

rule_high_severity ==
    [ state |-> "under_investigation", justification |-> "requires_configuration",
      detail |-> "High/Critical severity vulnerability requires detailed analysis",
      response |-> <<"can_not_fix", "update">> ]

rule_cascade_severity_first(vuln) ==
    LET severity == Upper(Get(vuln, "Severity", ""))
        title == Lower(Get(vuln, "Title", ""))
        description == Lower(Get(vuln, "Description", ""))
    IN  IF severity \in {"CRITICAL", "HIGH"} THEN rule_high_severity
        ELSE IF ContainsAny(Lower(Get(vuln, "PkgName", "")), dev_markers)
        THEN rule_dev_dependency(vuln)
        ELSE IF severity \in {"LOW", "NEGLIGIBLE"} THEN rule_low_severity
        ELSE IF ContainsAny(description, not_exploitable_patterns) THEN rule_not_exploitable
        ELSE IF ContainsAny(title, non_executable_patterns) THEN rule_non_executable
        ELSE analysis_default(vuln)

\* analyze_vulnerability, lines 58-105: the if/elif chain
rule_cascade(vuln) ==
    LET severity == Upper(Get(vuln, "Severity", ""))
        title == Lower(Get(vuln, "Title", ""))
        description == Lower(Get(vuln, "Description", ""))
    IN  IF ContainsAny(Lower(Get(vuln, "PkgName", "")), dev_markers)
        THEN rule_dev_dependency(vuln)
        ELSE IF severity \in {"LOW", "NEGLIGIBLE"} THEN rule_low_severity
        ELSE IF ContainsAny(description, not_exploitable_patterns) THEN rule_not_exploitable
        ELSE IF ContainsAny(title, non_executable_patterns) THEN rule_non_executable
        ELSE IF severity \in {"CRITICAL", "HIGH"} THEN rule_high_severity
        ELSE analysis_default(vuln)

fixed_version_override_as_fixed(vuln, a) ==
    LET fixed_version == Get(vuln, "FixedVersion", "")
    IN  IF fixed_version # "" /\ a.state # "not_affected"
        THEN [a EXCEPT !.state = "fixed", !.response = <<"update">>,
                       !.detail = @ \o ". Fixed in version " \o fixed_version]
        ELSE a

fixed_version_override_always(vuln, a) ==
    LET fixed_version == Get(vuln, "FixedVersion", "")
    IN  IF fixed_version # ""
        THEN [a EXCEPT !.state = "affected", !.response = <<"update">>,
                       !.detail = @ \o ". Fixed in version " \o fixed_version]
        ELSE a

\* analyze_vulnerability, lines 107-113: the fixed-version adjustment
fixed_version_override(vuln, a) ==
    LET fixed_version == Get(vuln, "FixedVersion", "")
    IN  IF fixed_version # "" /\ a.state # "not_affected"
        THEN [a EXCEPT !.state = "affected", !.response = <<"update">>,
                       !.detail = @ \o ". Fixed in version " \o fixed_version]
        ELSE a

\* sbom_components only feeds the local matching_component, which is never
\* read, and image_ref is not used: the result depends on vuln alone
analyze_vulnerability(vuln) == fixed_version_override(vuln, rule_cascade(vuln))

purl_types ==
    << [markers |-> {".jar", "maven"}, prefix |-> "pkg:maven/"],
       [markers |-> {"node_modules", "npm"}, prefix |-> "pkg:npm/"],
       [markers |-> {"site-packages", "pypi"}, prefix |-> "pkg:pypi/"],
       [markers |-> {"apk", "alpine"}, prefix |-> "pkg:apk/alpine/"],
       [markers |-> {"deb", "ubuntu", "debian"}, prefix |-> "pkg:deb/ubuntu/"] >>

RECURSIVE package_purl(_, _, _)
package_purl(types, name, version) ==
    IF types = <<>> THEN "pkg:generic/" \o name \o "@" \o version
    ELSE IF ContainsAny(name, Head(types).markers)
    THEN Head(types).prefix \o name \o "@" \o version
    ELSE package_purl(Tail(types), name, version)

create_product_identifier_always_oci(ref, name, version) ==
    IF ref # ""
    THEN "pkg:oci/" \o RemoveAll(RemoveAll(ref, "ghcr.io/"), "docker.io/")
    ELSE package_purl(purl_types, name, version)

\* ref = "" stands for None: both take the else branch of  if image_ref
create_product_identifier(ref, name, version) ==
    IF ref # ""
    THEN IF StartsWith(ref, "pkg:") THEN ref
         ELSE "pkg:oci/" \o RemoveAll(RemoveAll(ref, "ghcr.io/"), "docker.io/")
    ELSE package_purl(purl_types, name, version)

cvss_sources == <<"nvd", "redhat", "ubuntu", "ghsa">>

\* scores are kept in tenths; 0 stands for a missing, null or zero score
RECURSIVE probe_cvss(_, _)
probe_cvss(sources, cvss) ==
    IF sources = <<>> THEN 0
    ELSE LET src == Head(sources)
             score == IF src \in DOMAIN cvss
                      THEN IF Get(cvss[src], "V3Score", 0) # 0
                           THEN cvss[src].V3Score ELSE Get(cvss[src], "V2Score", 0)
                      ELSE 0
         IN  IF score # 0 THEN score ELSE probe_cvss(Tail(sources), cvss)

extract_cvss_score(vuln) == probe_cvss(cvss_sources, Get(vuln, "CVSS", <<>>))

vex_statement_with_every_response(vuln, analysis, ref) ==
    [ vulnerability |-> [name |-> Get(vuln, "VulnerabilityID", "")],
      products |-> << [id |-> create_product_identifier(ref, Get(vuln, "PkgName", ""),
                                                        Get(vuln, "InstalledVersion", ""))] >>,
      status |-> analysis.state ]
    @@ (IF analysis.justification # "" THEN [justification |-> analysis.justification] ELSE <<>>)
    @@ (IF analysis.detail # "" THEN [detail |-> analysis.detail] ELSE <<>>)
    @@ (IF analysis.response # <<>>
        THEN [action_statement |-> analysis.response[1]] ELSE <<>>)
    @@ (IF analysis.state = "affected" /\ extract_cvss_score(vuln) > 0
        THEN [impact_statement |-> extract_cvss_score(vuln)] ELSE <<>>)

vex_statement_justified_when_not_affected(vuln, analysis, ref) ==
    [ vulnerability |-> [name |-> Get(vuln, "VulnerabilityID", "")],
      products |-> << [id |-> create_product_identifier(ref, Get(vuln, "PkgName", ""),
                                                        Get(vuln, "InstalledVersion", ""))] >>,
      status |-> analysis.state ]
    @@ (IF analysis.state = "not_affected" /\ analysis.justification # ""
        THEN [justification |-> analysis.justification] ELSE <<>>)
    @@ (IF analysis.detail # "" THEN [detail |-> analysis.detail] ELSE <<>>)
    @@ (IF analysis.state = "not_affected" /\ analysis.response # <<>>
        THEN [action_statement |-> analysis.response[1]] ELSE <<>>)
    @@ (IF analysis.state = "affected" /\ extract_cvss_score(vuln) > 0
        THEN [impact_statement |-> extract_cvss_score(vuln)] ELSE <<>>)

\* the statement of generate_vex_from_trivy for one entry; the timestamp is
\* left out
vex_statement(vuln, analysis, ref) ==
    [ vulnerability |-> [name |-> Get(vuln, "VulnerabilityID", "")],
      products |-> << [id |-> create_product_identifier(ref, Get(vuln, "PkgName", ""),
                                                        Get(vuln, "InstalledVersion", ""))] >>,
      status |-> analysis.state ]
    @@ (IF analysis.justification # "" THEN [justification |-> analysis.justification] ELSE <<>>)
    @@ (IF analysis.detail # "" THEN [detail |-> analysis.detail] ELSE <<>>)
    @@ (IF analysis.state = "not_affected" /\ analysis.response # <<>>
        THEN [action_statement |-> analysis.response[1]] ELSE <<>>)
    @@ (IF analysis.state = "affected" /\ extract_cvss_score(vuln) > 0
        THEN [impact_statement |-> extract_cvss_score(vuln)] ELSE <<>>)

\* the document id and the timestamps are left out; the author is the default
create_openvex_document(statements, ref) ==
    [ context |-> "https://openvex.dev/ns/v0.2.0",
      author |-> "FeelGood API Security Team",
      version |-> 1,
      statements |-> statements ]
    @@ (IF ref # "" THEN [document_notes |-> "VEX document generated for container image: " \o ref]
        ELSE <<>>)

generate_default_vex(ref) ==
    LET pid == IF ref = "" THEN "pkg:generic/feelgood-api@1.0.0"
               ELSE IF ~StartsWith(ref, "pkg:")
               THEN create_product_identifier(ref, "feelgood-api", "1.0.0")
               ELSE ref
    IN  create_openvex_document(
            << [ vulnerability |-> [name |-> "PLACEHOLDER-VEX"],
                 products |-> <<[id |-> pid]>>,
                 status |-> "not_affected",
                 justification |-> "code_not_present",
                 detail |-> "No vulnerabilities detected in current scan - placeholder VEX statement" ] >>,
            ref)

VexInit ==
    /\ trivy_file \in TrivyFiles
    /\ image_ref \in VexImageRefs
    /\ vex_trace = <<>>
    /\ vex_doc = NoValue
    /\ pkg_name = ""
    /\ product_id = ""

VexIdle ==
    /\ trivy_file = NoValue
    /\ image_ref = ""
    /\ vex_trace = <<>>
    /\ vex_doc = NoValue
    /\ pkg_name = ""
    /\ product_id = ""

\* main, lines 341-342: no --trivy-results, or the path does not exist
VexDefault ==
    /\ prog = "generate_vex" /\ pc = "main"
    /\ trivy_file.state \in {"no_arg", "missing"}
    /\ vex_doc' = generate_default_vex(image_ref)
    /\ pc' = "built"
    /\ UNCHANGED <<app_vars, prog, exit_status, compare_vars, trivy_file, image_ref, vex_trace,
                   pkg_name, product_id, verify_vars>>

\* generate_vex_from_trivy, lines 154-159: json.load raises
VexLoadFailed ==
    /\ prog = "generate_vex" /\ pc = "main"
    /\ trivy_file.state = "unparsable"
    /\ vex_doc' = generate_default_vex(image_ref)
    /\ pc' = "built"
    /\ UNCHANGED <<app_vars, prog, exit_status, compare_vars, trivy_file, image_ref, vex_trace,
                   pkg_name, product_id, verify_vars>>

\* generate_vex_from_trivy, line 174: trivy_data.get on a parsed value that is
\* not a dict raises AttributeError outside every try: the run ends with a
\* traceback and status 1, no document
VexNotAnObject ==
    /\ prog = "generate_vex" /\ pc = "main"
    /\ trivy_file.state = "not_object"
    /\ pc' = "done"
    /\ exit_status' = 1
    /\ UNCHANGED <<app_vars, prog, compare_vars, vex_vars, verify_vars>>

\* generate_vex_from_trivy, lines 171-220
VexGenerate ==
    /\ prog = "generate_vex" /\ pc = "main"
    /\ trivy_file.state = "ok"
    /\ LET es == trivy_file.entries
           trace == [i \in 1..Len(es) |->
                       [ vuln |-> es[i],
                         cascade |-> rule_cascade(es[i]),
                         analysis |-> analyze_vulnerability(es[i]) ]]
       IN  /\ vex_trace' = trace
           /\ vex_doc' = create_openvex_document(
                            [i \in 1..Len(es) |-> vex_statement(es[i], trace[i].analysis, image_ref)],
                            image_ref)
    /\ pc' = "built"
    /\ UNCHANGED <<app_vars, prog, exit_status, compare_vars, trivy_file, image_ref, pkg_name,
                   product_id, verify_vars>>

\* main, lines 344-357: the document is written or printed; with --output and
\* --validate a document vexctl rejects ends the run with status 1
VexOutput ==
    /\ prog = "generate_vex" /\ pc = "built"
    /\ \E validate \in BOOLEAN, vexctl \in {"valid", "invalid", "unavailable"} :
          exit_status' = IF validate /\ vexctl = "invalid" THEN 1 ELSE 0
    /\ pc' = "done"
    /\ UNCHANGED <<app_vars, prog, compare_vars, vex_vars, verify_vars>>

\* the parts image references and package names of the model are joined from
RefParts == {"ghcr.io/", "docker.io/", "pkg:", "org/app:v1", "docker."}
NameParts == {"maven", "npm", "site-packages", "apk", "deb", "-lib"}

RECURSIVE Joined(_, _)
Joined(parts, n) ==
    IF n = 0 THEN {""} ELSE Joined(parts, n - 1) \cup {a \o b : a \in Joined(parts, n - 1), b \in parts}

ProductIdInit ==
    /\ trivy_file = NoValue
    /\ image_ref \in Joined(RefParts, MaxRefParts)
    /\ pkg_name \in Joined(NameParts, MaxNameParts)
    /\ vex_trace = <<>>
    /\ vex_doc = NoValue
    /\ product_id = ""

\* one call of create_product_identifier(image_ref, pkg_name, "1.0")
CreateProductIdentifier ==
    /\ prog = "create_product_identifier" /\ pc = "main"
    /\ product_id' = create_product_identifier(image_ref, pkg_name, "1.0")
    /\ pc' = "done"
    /\ exit_status' = 0
    /\ UNCHANGED <<app_vars, prog, compare_vars, trivy_file, image_ref, vex_trace, vex_doc, pkg_name,
                   verify_vars>>

-----------------------------------------------------------------------------
(* verify_attestations.py *)

MaxAttestations == 1

max_command_timeout == 120
date_timeout == 10
max_image_ref_length == 512
digest_length == 64
sbom_size_limit == 10 * 1024 * 1024
vex_size_limit == 5 * 1024 * 1024

allowed_repos == {"plamen/feelgood-api"}

AlnumChars == CharsOf(UpperLetters \o LowerLetters \o Digits)
HexChars == CharsOf("abcdef" \o Digits)

RECURSIVE Repeat(_, _)
Repeat(s, n) == IF n = 0 THEN "" ELSE s \o Repeat(s, n - 1)

\* [a-zA-Z0-9]([a-zA-Z0-9<extra>]*[a-zA-Z0-9])?  against the whole of s
match_segment(s, extra) ==
    /\ Len(s) >= 1
    /\ Ch(s, 1) \in AlnumChars
    /\ Ch(s, Len(s)) \in AlnumChars
    /\ \A i \in 2..(Len(s) - 1) : Ch(s, i) \in AlnumChars \cup extra

\* seg(-.) ( "/" seg(-._) )*  against the whole of s: no class holds "/", so s
\* matches iff its pieces between the slashes are segments, the first one
\* without "_"
match_name_path(s) ==
    /\ Len(s) >= 1
    /\ Ch(s, 1) \in AlnumChars
    /\ Ch(s, Len(s)) \in AlnumChars
    /\ \A i \in 1..Len(s) :
          LET c == Ch(s, i)
          IN  /\ c \in AlnumChars \cup {"-", ".", "_", "/"}
              /\ c = "/" => Ch(s, i - 1) \in AlnumChars /\ Ch(s, i + 1) \in AlnumChars
              /\ c = "_" => \E j \in 1..(i - 1) : Ch(s, j) = "/"

\* (@sha256:[a-f0-9]{64}|:seg(-._))  against the whole of s
match_reference_suffix(s) ==
    \/ /\ StartsWith(s, "@sha256:")
       /\ Len(s) = 8 + digest_length
       /\ \A i \in 9..Len(s) : Ch(s, i) \in HexChars
    \/ /\ StartsWith(s, ":")
       /\ match_segment(SubSeq(s, 2, Len(s)), {"-", ".", "_"})

\* the pattern of _validate_image_ref between ^ and $ against the whole of s:
\* the name path holds neither ":" nor "@", so the suffix starts at the first
\* of them
full_match_image_ref(s) ==
    LET seps == {i \in 1..Len(s) : Ch(s, i) \in {":", "@"}}
    IN  /\ seps # {}
        /\ LET k == CHOOSE i \in seps : \A j \in seps : i <= j
           IN  /\ match_name_path(SubSeq(s, 1, k - 1))
               /\ match_reference_suffix(SubSeq(s, k, Len(s)))

\* owner/name of _validate_repository between ^ and $ against the whole of s
full_match_repository(s) ==
    LET slashes == {i \in 1..Len(s) : Ch(s, i) = "/"}
    IN  /\ slashes # {}
        /\ LET k == CHOOSE i \in slashes : \A j \in slashes : i <= j
               owner == SubSeq(s, 1, k - 1)
               name == SubSeq(s, k + 1, Len(s))
           IN  /\ Len(owner) >= 2 /\ match_segment(owner, {"-"})
               /\ Len(name) >= 2 /\ match_segment(name, {"-", ".", "_"})

DropLast(s) == SubSeq(s, 1, Len(s) - 1)

EndsWithNewline(s) == Len(s) >= 1 /\ Ch(s, Len(s)) = "\n"

\* re.match(pattern, s) with the pattern ending in $: $ matches at the end of s
\* and also just before a newline that ends s
re_match_image_ref(s) ==
    \/ full_match_image_ref(s)
    \/ EndsWithNewline(s) /\ full_match_image_ref(DropLast(s))

re_match_repository(s) ==
    \/ full_match_repository(s)
    \/ EndsWithNewline(s) /\ full_match_repository(DropLast(s))

re_match_source_uri(s) ==
    /\ StartsWith(s, "github.com/")
    /\ LET rest == SubSeq(s, 12, Len(s))
       IN  \/ full_match_repository(rest)
           \/ EndsWithNewline(rest) /\ full_match_repository(DropLast(rest))

\* TRUE iff _validate_image_ref returns, FALSE iff it raises ValueError
validate_image_ref(ref) ==
    /\ ref # ""
    /\ re_match_image_ref(ref)
    /\ ~(Len(ref) > max_image_ref_length)

validate_repository(repo) ==
    /\ repo # ""
    /\ re_match_repository(repo)
    /\ repo \in allowed_repos

\* AttestationVerifier.__init__: TRUE iff the object is built
construct_verifier(ref, repo) == validate_image_ref(ref) /\ validate_repository(repo)

\* the image references and repositories given on the command line
ImageRefs ==
    { "", "ghcr.io/org/app:v1.2.3", "ghcr.io/org/app:../../etc", "ghcr.io/org/app",
      "ghcr.io/org/app@sha256:" \o Repeat("0a", 32),
      "ghcr.io/org/app@sha256:" \o Repeat("0a", 31) \o "0",
      "ghcr.io/org/app:v1.2.3\n", "ghcr.io/org/app:v1.2.3\n\n",
      "-ghcr.io/org/app:v1", "ghcr.io/org_/app:v1", "ghcr.io/org/app:v1 -x",
      Repeat("registry/", 56) \o "app:v1.2.3" }

Repositories ==
    { "", "plamen/feelgood-api", "plamen/feelgood-api\n", "evil/repo", "plamen",
      "plamen/feelgood-api/x", "-plamen/feelgood-api" }

\* a JSON value of the stdout of cosign, as far as the code looks at it
AttestationItems ==
    {[type |-> "string"]}
    \cup { [type |-> "object", layer |-> l, layer_types |-> ""] :
             l \in {"", "runtime-filtered", "consolidated"} }
    \cup { [type |-> "object", layer |-> "", layer_types |-> "build-time,container"] }

JsonValues ==
    {[type |-> "invalid"], [type |-> "object"]}
    \cup {[type |-> "list", items |-> xs] : xs \in SeqsUpTo(AttestationItems, MaxAttestations)}

\* the outputs of a completed cosign call: small ones holding any of the JSON
\* values, and oversized ones (for the VEX check only, or for both size checks)
Stdouts ==
    {[size |-> 1024, json |-> j] : j \in JsonValues}
    \cup { [size |-> n, json |-> j] :
             n \in {vex_size_limit + 1, sbom_size_limit + 1},
             j \in {[type |-> "invalid"], [type |-> "object"],
                    [type |-> "list", items |-> <<>>]} }

NoStdout == [size |-> 0, json |-> [type |-> "invalid"]]

\* what _safe_subprocess_run can come back with: RuntimeError after a timeout
\* or after any other exception of subprocess.run, or a completed process
ProcessOutcomes ==
    {[kind |-> k, rc |-> -1, stdout |-> NoStdout] : k \in {"timeout", "exec_error"}}
    \cup {[kind |-> "exit", rc |-> 1, stdout |-> NoStdout]}
    \cup {[kind |-> "exit", rc |-> 0, stdout |-> out] : out \in Stdouts}

\* the same for the calls whose output the code does not read
PlainOutcomes ==
    {o \in ProcessOutcomes : o.rc = 0 => o.stdout = [size |-> 1024, json |-> [type |-> "invalid"]]}

Raised(outcome) == outcome.kind # "exit"

\* the record kept of a call: the check, the timeout passed to subprocess.run
\* (timeout or max_command_timeout), the outcome without the list items, the
\* limit len(result.stdout) was compared with before json.loads (0: it was
\* not compared) and whether json.loads was called on the output
call_record(check, timeout, outcome, size_cap, parsed) ==
    [ check |-> check,
      size_cap |-> size_cap,
      parsed |-> parsed,
      timeout |-> IF timeout # 0 THEN timeout ELSE max_command_timeout,
      kind |-> outcome.kind,
      rc |-> outcome.rc,
      size |-> outcome.stdout.size,
      json |-> outcome.stdout.json.type,
      bad_item |-> /\ outcome.stdout.json.type = "list"
                   /\ \E i \in 1..Len(outcome.stdout.json.items) :
                         outcome.stdout.json.items[i].type # "object" ]

NoCall == [check |-> "none", size_cap |-> 0, parsed |-> FALSE, timeout |-> 0, kind |-> "none", rc |-> -1, size |-> 0,
           json |-> "invalid", bad_item |-> FALSE]

PendingResults ==
    [ signature |-> "pending", provenance |-> "pending", slsa_verifier |-> "pending",
      github |-> "pending", sboms |-> "pending", vex |-> "pending" ]

\* verify_multi_layer_sboms before its first iteration: the index of the layer
\* type to check next, the local list verified_sboms, the local attestations
\* (the list parsed from the output of the last call, empty when none was), and
\* whether every call of the loop so far returned that same list
NoSbomLoop == [index |-> 1, verified_sboms |-> <<>>, attestations |-> <<>>, same_output |-> TRUE]

VerifyInit ==
    /\ verifier \in [image_ref : ImageRefs, repository : Repositories]
    /\ verified_components = <<>>
    /\ all_passed = TRUE
    /\ results = PendingResults
    /\ external_calls = 0
    /\ last_call = NoCall
    /\ sbom_loop = NoSbomLoop
    /\ report = NoValue
    /\ aborted = FALSE

VerifyIdle ==
    /\ verifier = NoValue
    /\ verified_components = <<>>
    /\ all_passed = TRUE
    /\ results = PendingResults
    /\ external_calls = 0
    /\ last_call = NoCall
    /\ sbom_loop = NoSbomLoop
    /\ report = NoValue
    /\ aborted = FALSE

Verifying(at) == prog = "verify_attestations" /\ pc = at

PassedOrFailed(ok) == IF ok THEN "passed" ELSE "failed"

\* main, lines 452-456
VerifyConstruct ==
    /\ Verifying("main")
    /\ IF construct_verifier(verifier.image_ref, verifier.repository)
       THEN pc' = "verify_signature" /\ exit_status' = exit_status
       ELSE pc' = "done" /\ exit_status' = 1
    /\ UNCHANGED <<app_vars, prog, compare_vars, vex_vars, verify_vars>>

\* an uncaught exception: traceback, status 1, nothing after it runs
Abort ==
    /\ pc' = "done"
    /\ exit_status' = 1
    /\ aborted' = TRUE

\* main, lines 461-463, with verify_signature
VerifySignature ==
    /\ Verifying("verify_signature")
    /\ \E outcome \in PlainOutcomes :
         LET ok == ~Raised(outcome) /\ outcome.rc = 0
         IN  /\ last_call' = call_record("signature", 0, outcome, 0, FALSE)
             /\ verified_components' =
                   IF ok THEN Append(verified_components, "signature") ELSE verified_components
             /\ results' = [results EXCEPT !.signature = PassedOrFailed(ok)]
             /\ all_passed' = (all_passed /\ ok)
    /\ external_calls' = external_calls + 1
    /\ pc' = "verify_slsa_provenance"
    /\ UNCHANGED <<app_vars, prog, exit_status, compare_vars, vex_vars, verifier, sbom_loop, report, aborted>>

\* main, lines 465-467, with verify_slsa_provenance: the tag is appended before
\* the output is parsed; json.loads runs on stdout of any size; only
\* JSONDecodeError is caught, so a parsed value that is not an object makes
\* _display_provenance_summary raise AttributeError
VerifyProvenance ==
    /\ Verifying("verify_slsa_provenance")
    /\ \E outcome \in ProcessOutcomes :
         LET ok == ~Raised(outcome) /\ outcome.rc = 0
             crash == ok /\ outcome.stdout.json.type = "list"
         IN  /\ last_call' = call_record("provenance", 0, outcome, 0, ok)
             /\ verified_components' =
                   IF ok THEN Append(verified_components, "slsa-provenance")
                   ELSE verified_components
             /\ IF crash
                THEN /\ Abort
                     /\ UNCHANGED <<results, all_passed>>
                ELSE /\ results' = [results EXCEPT !.provenance = PassedOrFailed(ok)]
                     /\ all_passed' = (all_passed /\ ok)
                     /\ pc' = "verify_with_slsa_verifier"
                     /\ UNCHANGED <<exit_status, aborted>>
    /\ external_calls' = external_calls + 1
    /\ UNCHANGED <<app_vars, prog, compare_vars, vex_vars, verifier, sbom_loop, report>>

SourceUris == {"", "github.com/plamen/feelgood-api", "https://github.com/plamen/feelgood-api"}

\* main, lines 469-472, with verify_with_slsa_verifier: skipped without
\* --source-uri; a URI of the wrong form fails the check without a call
VerifyWithSlsaVerifier ==
    /\ Verifying("verify_with_slsa_verifier")
    /\ \E source_uri \in SourceUris, outcome \in PlainOutcomes :
         IF source_uri = ""
         THEN /\ results' = [results EXCEPT !.slsa_verifier = "skipped"]
              /\ UNCHANGED <<last_call, verified_components, all_passed, external_calls>>
         ELSE IF ~re_match_source_uri(source_uri)
         THEN /\ results' = [results EXCEPT !.slsa_verifier = "failed"]
              /\ all_passed' = FALSE
              /\ UNCHANGED <<last_call, verified_components, external_calls>>
         ELSE LET ok == ~Raised(outcome) /\ outcome.rc = 0
              IN  /\ last_call' = call_record("slsa_verifier", 0, outcome, 0, FALSE)
                  /\ verified_components' =
                        IF ok THEN Append(verified_components, "slsa-verifier")
                        ELSE verified_components
                  /\ results' = [results EXCEPT !.slsa_verifier = PassedOrFailed(ok)]
                  /\ all_passed' = (all_passed /\ ok)
                  /\ external_calls' = external_calls + 1
    /\ pc' = "verify_github_attestations"
    /\ UNCHANGED <<app_vars, prog, exit_status, compare_vars, vex_vars, verifier, sbom_loop, report, aborted>>

\* main, line 475, with verify_github_attestations: the result is dropped
VerifyGithubAttestations ==
    /\ Verifying("verify_github_attestations")
    /\ \E outcome \in PlainOutcomes :
         LET ok == ~Raised(outcome) /\ outcome.rc = 0
         IN  /\ last_call' = call_record("github", 0, outcome, 0, FALSE)
             /\ verified_components' =
                   IF ok THEN Append(verified_components, "github-attestations")
                   ELSE verified_components
             /\ results' = [results EXCEPT !.github = PassedOrFailed(ok)]
    /\ external_calls' = external_calls + 1
    /\ pc' = "verify_multi_layer_sboms"
    /\ UNCHANGED <<app_vars, prog, exit_status, compare_vars, vex_vars, verifier, all_passed, sbom_loop,
                   report, aborted>>

sbom_types == <<"build-time", "runtime-filtered", "container", "consolidated">>

layer_match_by_properties(attestation, sbom_type) ==
    \/ attestation.layer = sbom_type
    \/ sbom_type = "consolidated" /\ Contains(attestation.layer_types, "build-time")

\* lines 271-293 for one attestation (an object) and one layer type
layer_match(attestation, sbom_type) ==
    \/ attestation.layer = sbom_type
    \/ sbom_type = "consolidated" /\ Contains(attestation.layer_types, "build-time")
    \/ sbom_type \in {"build-time", "container"}

\* lines 270-307: the items are visited in order up to the first match; "raise"
\* when an item that is not an object is reached (attestation.get raises
\* AttributeError, which the except clause of line 309 does not catch)
RECURSIVE scan_attestations(_, _)
scan_attestations(items, sbom_type) ==
    IF items = <<>> THEN "no_match"
    ELSE IF Head(items).type # "object" THEN "raise"
    ELSE IF layer_match(Head(items), sbom_type) THEN "match"
    ELSE scan_attestations(Tail(items), sbom_type)

\* lines 252-312 for one layer type: "match", "no_match" or "raise"
check_sbom_layer(outcome, sbom_type) ==
    IF Raised(outcome) \/ outcome.rc # 0 THEN "no_match"
    ELSE IF outcome.stdout.size > sbom_size_limit THEN "no_match"
    ELSE IF outcome.stdout.json.type # "list" THEN "no_match"
    ELSE scan_attestations(outcome.stdout.json.items, sbom_type)

\* lines 265-268: the list json.loads gives for the output of a call, empty
\* when the output is not parsed or is not a list
parsed_attestations(outcome) ==
    IF \/ Raised(outcome) \/ outcome.rc # 0
       \/ outcome.stdout.size > sbom_size_limit
       \/ outcome.stdout.json.type # "list"
    THEN <<>>
    ELSE outcome.stdout.json.items

\* main, lines 477-480, with verify_multi_layer_sboms: one step per layer type
\* (one cosign call each); the step of the last layer type also runs lines
\* 314-327
VerifySbomLayer ==
    /\ Verifying("verify_multi_layer_sboms")
    /\ \E outcome \in ProcessOutcomes :
         LET sbom_type == sbom_types[sbom_loop.index]
             found == check_sbom_layer(outcome, sbom_type)
             verified_sboms == IF found = "match"
                               THEN Append(sbom_loop.verified_sboms, sbom_type)
                               ELSE sbom_loop.verified_sboms
             last == sbom_loop.index = Len(sbom_types)
             completed == ~Raised(outcome) /\ outcome.rc = 0
             attestations == parsed_attestations(outcome)
         IN  /\ last_call' = call_record("sboms", 0, outcome,
                                         IF completed THEN sbom_size_limit ELSE 0,
                                         completed /\ ~(outcome.stdout.size > sbom_size_limit))
             /\ IF found = "raise"
                THEN /\ Abort
                     /\ UNCHANGED <<sbom_loop, verified_components, results>>
                ELSE /\ sbom_loop' =
                           [ index |-> sbom_loop.index + 1,
                             verified_sboms |-> verified_sboms,
                             attestations |-> attestations,
                             same_output |->
                                 /\ sbom_loop.same_output
                                 /\ sbom_loop.index = 1 \/ attestations = sbom_loop.attestations ]
                     /\ verified_components' =
                           IF last
                           THEN verified_components \o
                                  [i \in 1..Len(verified_sboms) |-> "sbom-" \o verified_sboms[i]]
                           ELSE verified_components
                     /\ results' =
                           IF last
                           THEN [results EXCEPT !.sboms = PassedOrFailed(verified_sboms # <<>>)]
                           ELSE results
                     /\ pc' = IF last THEN "verify_vex_attestations" ELSE pc
                     /\ UNCHANGED <<exit_status, aborted>>
    /\ external_calls' = external_calls + 1
    /\ UNCHANGED <<app_vars, prog, compare_vars, vex_vars, verifier, all_passed, report>>

\* main, lines 482-485, with verify_vex_attestations
VerifyVexAttestations ==
    /\ Verifying("verify_vex_attestations")
    /\ \E outcome \in ProcessOutcomes :
         LET ok == /\ ~Raised(outcome) /\ outcome.rc = 0
                   /\ ~(outcome.stdout.size > vex_size_limit)
                   /\ outcome.stdout.json.type = "list"
             completed == ~Raised(outcome) /\ outcome.rc = 0
         IN  /\ last_call' = call_record("vex", 0, outcome,
                                         IF completed THEN vex_size_limit ELSE 0,
                                         completed /\ ~(outcome.stdout.size > vex_size_limit))
             /\ verified_components' =
                   IF ok THEN Append(verified_components, "vex-attestations")
                   ELSE verified_components
             /\ results' = [results EXCEPT !.vex = PassedOrFailed(ok)]
    /\ external_calls' = external_calls + 1
    /\ pc' = "generate_verification_report"
    /\ UNCHANGED <<app_vars, prog, exit_status, compare_vars, vex_vars, verifier, all_passed, sbom_loop,
                   report, aborted>>

Member(x, xs) == \E i \in 1..Len(xs) : xs[i] = x

slsa_level_without_vex(components) ==
    LET sbom_components == SelectSeq(components, LAMBDA c : StartsWith(c, "sbom-"))
    IN  IF Member("slsa-provenance", components)
        THEN IF Len(sbom_components) >= 3 THEN "3+"
             ELSE IF Len(sbom_components) >= 1 THEN "3"
             ELSE "2+"
        ELSE "unknown"

slsa_level(components) ==
    LET sbom_components == SelectSeq(components, LAMBDA c : StartsWith(c, "sbom-"))
        has_vex == Member("vex-attestations", components)
    IN  IF Member("slsa-provenance", components)
        THEN IF Len(sbom_components) >= 3 /\ has_vex THEN "3+"
             ELSE IF Len(sbom_components) >= 1 THEN "3"
             ELSE "2+"
        ELSE "unknown"

generate_verification_report_status_of_run ==
    [ image |-> verifier.image_ref,
      repository |-> verifier.repository,
      verified_components |-> verified_components,
      slsa_level |-> slsa_level(verified_components),
      sbom_layers_verified |->
          Len(SelectSeq(verified_components, LAMBDA c : StartsWith(c, "sbom-"))),
      has_vex_attestations |-> Member("vex-attestations", verified_components),
      has_runtime_filtered_sbom |-> Member("sbom-runtime-filtered", verified_components),
      status |-> IF all_passed THEN "verified" ELSE "failed" ]

\* generate_verification_report without the timestamp
generate_verification_report ==
    [ image |-> verifier.image_ref,
      repository |-> verifier.repository,
      verified_components |-> verified_components,
      slsa_level |-> slsa_level(verified_components),
      sbom_layers_verified |->
          Len(SelectSeq(verified_components, LAMBDA c : StartsWith(c, "sbom-"))),
      has_vex_attestations |-> Member("vex-attestations", verified_components),
      has_runtime_filtered_sbom |-> Member("sbom-runtime-filtered", verified_components),
      status |-> IF verified_components # <<>> THEN "verified" ELSE "failed" ]

exit_code_ignoring_checks(passed, saving) == IF saving = "failed" THEN 1 ELSE 0

\* main, lines 490-510: the status the run ends with
exit_code(passed, saving) == IF saving = "failed" THEN 1 ELSE IF passed THEN 0 ELSE 1

\* main, lines 487-510, with generate_verification_report (one call of date
\* for the timestamp): --report absent, a report that is saved, or one that
\* cannot be saved (no parent directory, OSError), which ends the run with 1
VerifyReport ==
    /\ Verifying("generate_verification_report")
    /\ \E outcome \in PlainOutcomes, saving \in {"not_requested", "saved", "failed"} :
         /\ last_call' = call_record("date", date_timeout, outcome, 0, FALSE)
         /\ report' = generate_verification_report @@ [saving |-> saving]
         /\ exit_status' = exit_code(all_passed, saving)
    /\ external_calls' = external_calls + 1
    /\ pc' = "done"
    /\ UNCHANGED <<app_vars, prog, compare_vars, vex_vars, verifier, verified_components, all_passed,
                   results, sbom_loop, aborted>>

-----------------------------------------------------------------------------
(* src/phrases.py and src/app.py *)

\* PhraseGenerator.phrases
phrases ==
    [ motivation |->
        << "You are capable of amazing things!",
           "Every day is a new beginning.",
           "Believe in yourself and all that you are.",
           "Your potential is endless.",
           "You've got this!" >>,
      gratitude |->
        << "Today is a gift, that's why it's called the present.",
           "Gratitude turns what we have into enough.",
           "Count your rainbows, not your thunderstorms.",
           "The little things are the big things.",
           "Appreciation is a wonderful thing." >>,
      kindness |->
        << "Kindness is always fashionable.",
           "Be the reason someone smiles today.",
           "A little kindness goes a long way.",
           "Spread love everywhere you go.",
           "Your kindness makes a difference." >>,
      growth |->
        << "Progress, not perfection.",
           "Every expert was once a beginner.",
           "Growth happens outside your comfort zone.",
           "You're becoming who you're meant to be.",
           "Small steps lead to big changes." >> ]

\* list(self.phrases.keys())
get_categories == <<"motivation", "gratitude", "kindness", "growth">>

\* an Optional[str] is <<>> for None and <<s>> for the string s
None == <<>>

Some(text) == <<text>>

\* the two draws of random.choice made by one call
RandomDraws == [category : Range(get_categories), index : 1..5]

get_phrase_any_category(category, draw) ==
    [ raised |-> FALSE,
      phrase |-> phrases[draw.category][draw.index],
      category |-> draw.category ]

get_phrase_without_check(category, draw) ==
    IF category # None /\ category[1] \in DOMAIN phrases
    THEN [ raised |-> FALSE,
           phrase |-> phrases[category[1]][draw.index],
           category |-> category[1] ]
    ELSE [ raised |-> FALSE,
           phrase |-> phrases[draw.category][draw.index],
           category |-> draw.category ]

\* PhraseGenerator.get_phrase(category): the pair returned, or ValueError
get_phrase(category, draw) ==
    IF category # None /\ category[1] # ""
    THEN IF category[1] \notin DOMAIN phrases
         THEN [raised |-> TRUE, phrase |-> "", category |-> category[1]]
         ELSE [ raised |-> FALSE,
                phrase |-> phrases[category[1]][draw.index],
                category |-> category[1] ]
    ELSE [ raised |-> FALSE,
           phrase |-> phrases[draw.category][draw.index],
           category |-> draw.category ]

\* the headers set by add_security_headers
security_headers ==
    [ x \in { "X-Content-Type-Options", "X-Frame-Options", "X-XSS-Protection",
              "Strict-Transport-Security", "X-SBOM-Location", "X-VEX-Location",
              "X-Provenance-Location" } |->
        CASE x = "X-Content-Type-Options" -> "nosniff"
          [] x = "X-Frame-Options" -> "DENY"
          [] x = "X-XSS-Protection" -> "1; mode=block"
          [] x = "Strict-Transport-Security" -> "max-age=31536000; includeSubDomains"
          [] x = "X-SBOM-Location" -> "/security/sbom"
          [] x = "X-VEX-Location" -> "/security/vex"
          [] x = "X-Provenance-Location" -> "/security/provenance" ]

Response(status, body) == [status |-> status, headers |-> <<>>, body |-> body]

\* what the route handler (with the exception handlers around the router)
\* hands back: a response, or an exception that no handler takes
Returned(response) == [raised |-> FALSE, response |-> response]

Unhandled == [raised |-> TRUE, response |-> Response(500, [text |-> "Internal Server Error"])]

\* add_security_headers around the rest of the application: the headers are
\* set on the response of call_next; an exception raised by call_next passes
add_security_headers(inner) ==
    IF inner.raised THEN inner
    ELSE Returned([inner.response EXCEPT !.headers = security_headers @@ @])

\* a CORS preflight request (Origin and Access-Control-Request-Method on an
\* OPTIONS request), which CORSMiddleware answers itself
is_preflight(request) ==
    /\ request.origin # ""
    /\ request.method = "OPTIONS"
    /\ request.access_control_request_method

preflight_response(request) ==
    [ status |-> 200,
      headers |-> [ x \in {"access-control-allow-origin", "access-control-allow-methods"} |->
                      IF x = "access-control-allow-origin" THEN request.origin
                      ELSE "DELETE, GET, HEAD, OPTIONS, PATCH, POST, PUT" ],
      body |-> [text |-> "OK"] ]

\* CORSMiddleware(allow_origins=["*"]) on a response of the inner application
cors_headers(request, response) ==
    IF request.origin # ""
    THEN [response EXCEPT !.headers = [x \in {"access-control-allow-origin"} |-> "*"] @@ @]
    ELSE response

\* the middleware stack, outermost first: the server-error handler, then
\* CORSMiddleware (added last), then add_security_headers, then the routes.
\* routed is what the routes hand back for the request
application(request, routed) ==
    IF is_preflight(request) THEN preflight_response(request)
    ELSE LET inner == add_security_headers(routed)
         IN  IF inner.raised THEN inner.response
             ELSE cors_headers(request, inner.response)

Routes ==
    { "/", "/health", "/phrase", "/phrases/categories", "/security", "/security/sbom",
      "/security/vex", "/security/provenance" }

\* the requests sent to path: the method, the category query parameter and
\* the two request headers CORSMiddleware reads (origin "" when there is no
\* Origin header)
Requests(path, methods, categories) ==
    [ method : methods, path : {path}, category : categories,
      origin : {"", "https://a.example"}, access_control_request_method : BOOLEAN ]

QueryCategories == {None, Some(""), Some("motivation"), Some("growth"), Some("invalid"),
                    Some("Motivation")}

\* the file a /security endpoint opens: absent, holding JSON, or holding text
\* that json.load rejects
FileStates == {"missing", "json", "not_json"}

AppInit ==
    /\ http_request = NoValue
    /\ phrase_result = NoValue
    /\ http_response = NoValue

Serving == prog = "app" /\ pc = "main"

\* one request answered, from the routes' result up to the response sent; the
\* service keeps nothing from one request to the next (the generator is never
\* written after startup), so a run answers one request
Answer(request, routed) ==
    /\ http_request' = request
    /\ http_response' = application(request, routed)
    /\ pc' = "done"
    /\ UNCHANGED <<prog, exit_status, compare_vars, vex_vars, verify_vars>>

\* a response of a route handler that calls nothing of the generator
Plain(status, body) == Returned(Response(status, body))

\* a CORS preflight for any path: the routes are not reached
Preflight ==
    /\ Serving
    /\ \E path \in Routes \cup {"/nope"} :
         \E request \in Requests(path, {"OPTIONS"}, {None}) :
            /\ is_preflight(request)
            /\ Answer(request, Plain(405, [detail |-> "Method Not Allowed"]))
    /\ UNCHANGED phrase_result

\* no route for the path, or a route that is GET only asked with another method
NoRoute ==
    /\ Serving
    /\ \/ \E request \in Requests("/nope", {"GET", "POST"}, {None}) :
             Answer(request, Plain(404, [detail |-> "Not Found"]))
       \/ \E path \in Routes :
             \E request \in Requests(path, {"POST", "OPTIONS"}, {None}) :
                /\ ~is_preflight(request)
                /\ Answer(request, Plain(405, [detail |-> "Method Not Allowed"]))
    /\ UNCHANGED phrase_result

root ==
    /\ Serving
    /\ \E request \in Requests("/", {"GET"}, {None}) :
         Answer(request, Plain(200, [message |-> "Welcome to the Feel Good Phrases API"]))
    /\ UNCHANGED phrase_result

health_check ==
    /\ Serving
    /\ \E request \in Requests("/health", {"GET"}, {None}) :
         Answer(request, Plain(200, [status |-> "healthy", version |-> "1.0.0"]))
    /\ UNCHANGED phrase_result

\* /phrase: ValueError of the generator becomes HTTPException(400), which the
\* exception handler turns into the response {"detail": ...}
get_phrase_endpoint ==
    /\ Serving
    /\ \E request \in Requests("/phrase", {"GET"}, QueryCategories), draw \in RandomDraws :
         LET result == get_phrase(request.category, draw)
         IN  /\ phrase_result' = [requested |-> request.category] @@ result
             /\ Answer(request,
                       IF result.raised
                       THEN Plain(400, [detail |-> "Category '" \o result.category
                                                      \o "' not found."])
                       ELSE Plain(200, [phrase |-> result.phrase,
                                        category |-> result.category]))

get_categories_endpoint ==
    /\ Serving
    /\ \E request \in Requests("/phrases/categories", {"GET"}, {None}) :
         Answer(request, Plain(200, [categories |-> get_categories]))
    /\ UNCHANGED phrase_result

security_info ==
    /\ Serving
    /\ \E request \in Requests("/security", {"GET"}, {None}) :
         Answer(request, Plain(200, [ sbom_location |-> "/security/sbom",
                                      vex_location |-> "/security/vex",
                                      provenance_location |-> "/security/provenance" ]))
    /\ UNCHANGED phrase_result

\* get_sbom and get_vex: only FileNotFoundError is caught
serve_file(file, missing) ==
    CASE file = "missing" -> Plain(404, [error |-> missing])
      [] file = "json" -> Plain(200, [document |-> "json"])
      [] OTHER -> Unhandled

get_sbom ==
    /\ Serving
    /\ \E request \in Requests("/security/sbom", {"GET"}, {None}), file \in FileStates :
         Answer(request, serve_file(file, "SBOM not found. Generated during build process."))
    /\ UNCHANGED phrase_result

get_vex ==
    /\ Serving
    /\ \E request \in Requests("/security/vex", {"GET"}, {None}), file \in FileStates :
         Answer(request, serve_file(file, "VEX document not found."))
    /\ UNCHANGED phrase_result

get_provenance ==
    /\ Serving
    /\ \E request \in Requests("/security/provenance", {"GET"}, {None}) :
         Answer(request, Plain(200, [builder |-> "github-actions"]))
    /\ UNCHANGED phrase_result

-----------------------------------------------------------------------------

Init ==
    /\ prog \in {"compare_scans", "generate_vex", "create_product_identifier",
                 "verify_attestations", "app"}
    /\ pc = "main"
    /\ exit_status = -1
    /\ IF prog = "compare_scans" THEN CompareInit ELSE CompareIdle
    /\ CASE prog = "generate_vex" -> VexInit
         [] prog = "create_product_identifier" -> ProductIdInit
         [] OTHER -> VexIdle
    /\ IF prog = "verify_attestations" THEN VerifyInit ELSE VerifyIdle
    /\ AppInit

Next ==
    \/ CompareMissingFile
    \/ CompareRun
    \/ CompareRerunWithCritical
    \/ VexDefault
    \/ VexLoadFailed
    \/ VexNotAnObject
    \/ VexGenerate
    \/ VexOutput
    \/ CreateProductIdentifier
    \/ VerifyConstruct
    \/ VerifySignature
    \/ VerifyProvenance
    \/ VerifyWithSlsaVerifier
    \/ VerifyGithubAttestations
    \/ VerifySbomLayer
    \/ VerifyVexAttestations
    \/ VerifyReport
    \/ Preflight
    \/ NoRoute
    \/ root
    \/ health_check
    \/ get_phrase_endpoint
    \/ get_categories_endpoint
    \/ security_info
    \/ get_sbom
    \/ get_vex
    \/ get_provenance

Spec == Init /\ [][Next]_vars

-----------------------------------------------------------------------------
(* Claims *)

Reported == prog = "compare_scans" /\ comparison # NoValue

\* the entries of a file that are in its snapshot: none when the file could
\* not be loaded
SnapshotEntries(file) == IF extract_raises(file.entries) THEN <<>> ELSE file.entries

\* C1: for every pair of snapshots the key sets of compare_scans partition the
\* identities: added and removed are disjoint, added with unchanged is the
\* current identities, removed with unchanged is the previous identities, and
\* the counts of comparison_metadata are the sizes of these sets and of the two
\* snapshots.
C1_KeySetsPartition ==
    Reported =>
        LET k == cmp_locals
            m == comparison.comparison_metadata
            P == {vuln_key(e) : e \in Range(SnapshotEntries(previous_file))}
            C == {vuln_key(e) : e \in Range(SnapshotEntries(current_file))}
        IN  /\ k.new_vuln_keys \cap k.resolved_vuln_keys = {}
            /\ k.new_vuln_keys \cup k.unchanged_vuln_keys = C
            /\ k.resolved_vuln_keys \cup k.unchanged_vuln_keys = P
            /\ m.new_vulnerabilities_count = Cardinality(k.new_vuln_keys)
            /\ m.resolved_vulnerabilities_count = Cardinality(k.resolved_vuln_keys)
            /\ m.unchanged_vulnerabilities_count = Cardinality(k.unchanged_vuln_keys)
            /\ m.previous_scan_vulns = Cardinality(P)
            /\ m.current_scan_vulns = Cardinality(C)
            /\ Len(comparison.new_vulnerabilities) = m.new_vulnerabilities_count
            /\ Len(comparison.resolved_vulnerabilities) = m.resolved_vulnerabilities_count
            /\ Len(comparison.unchanged_vulnerabilities) = m.unchanged_vulnerabilities_count

C1_Witness ==
    /\ Reported
    /\ cmp_locals.new_vuln_keys # {}
    /\ cmp_locals.resolved_vuln_keys # {}
    /\ cmp_locals.unchanged_vuln_keys # {}

\* the severities of the records added by the current scan, read off the two
\* files: an identity of the current document that the previous one lacks, with
\* the severity of its last entry in the current document
AddedSeverities ==
    LET P == {vuln_key(e) : e \in Range(SnapshotEntries(previous_file))}
        es == SnapshotEntries(current_file)
    IN  { Get(es[i], "Severity", "UNKNOWN") :
            i \in { n \in 1..Len(es) :
                      /\ vuln_key(es[n]) \notin P
                      /\ \A m \in (n + 1)..Len(es) : vuln_key(es[m]) # vuln_key(es[n]) } }

\* C2: the risk level is a strict priority cascade over the added records only:
\* CRITICAL if an added record is CRITICAL, else HIGH if an added record is HIGH,
\* else MEDIUM if a record was added, else LOW; each level comes with its one
\* fixed recommended_action.
C2_RiskCascade ==
    Reported =>
        LET s == comparison.summary
            expected == IF "CRITICAL" \in AddedSeverities THEN "CRITICAL"
                        ELSE IF "HIGH" \in AddedSeverities THEN "HIGH"
                        ELSE IF AddedSeverities # {} THEN "MEDIUM"
                        ELSE "LOW"
        IN  /\ s.risk_level = expected
            /\ s.recommended_action =
                 CASE s.risk_level = "CRITICAL" ->
                        "Immediate attention required - critical vulnerabilities detected"
                   [] s.risk_level = "HIGH" ->
                        "High priority vulnerabilities require prompt remediation"
                   [] s.risk_level = "MEDIUM" ->
                        "New vulnerabilities detected - review and plan remediation"
                   [] s.risk_level = "LOW" -> "No new vulnerabilities detected"

\* an unchanged CRITICAL record and an added HIGH one beside an added CRITICAL
\* one: the level is decided by the added records, the highest first
C2_Witness ==
    /\ Reported
    /\ comparison.summary.risk_level = "HIGH"
    /\ \E i \in 1..Len(comparison.unchanged_vulnerabilities) :
          comparison.unchanged_vulnerabilities[i].severity = "CRITICAL"
    /\ Len(comparison.resolved_vulnerabilities) > 0

RiskRank(level) ==
    CASE level = "LOW" -> 0 [] level = "MEDIUM" -> 1 [] level = "HIGH" -> 2
      [] level = "CRITICAL" -> 3

\* C3: with the previous snapshot and everything else equal, one more CRITICAL
\* record in the current snapshot never yields a lower risk level than before.
C3_RiskMonotonic ==
    (Reported /\ baseline # "none") =>
        RiskRank(comparison.summary.risk_level) >= RiskRank(baseline)

\* the added CRITICAL record raises the level, or it is already known from the
\* previous scan and leaves a lower level as it was
C3_Witness ==
    /\ Reported /\ baseline = "MEDIUM"
    /\ comparison.summary.risk_level = "CRITICAL"

C3_WitnessUnchanged ==
    /\ Reported /\ baseline = "LOW"
    /\ comparison.summary.risk_level = "LOW"
    /\ \E i \in 1..Len(comparison.unchanged_vulnerabilities) :
          comparison.unchanged_vulnerabilities[i].severity = "CRITICAL"

Analysed == prog = "generate_vex" /\ vex_trace # <<>>

\* C4: analyze_vulnerability is an ordered first-match cascade: (1) package
\* name contains test/dev/debug/mock/fixture, whatever the case ->
\* not_affected/code_not_present; (2) else severity LOW or NEGLIGIBLE ->
\* not_affected/protected_by_mitigating_control; (3) else description contains
\* a non-exploitable phrase -> not_affected/requires_environment; (4) else
\* title contains documentation/example/sample -> not_affected/
\* code_not_present; (5) else severity CRITICAL or HIGH -> under_investigation/
\* requires_configuration with response {can_not_fix, update}; (6) else
\* under_investigation/requires_configuration.  A test-lib package of severity
\* CRITICAL is classified not_affected/code_not_present.  (Severity is compared
\* upper-cased, title and description lower-cased, as the code reads them.)
C4_RuleCascade ==
    Analysed =>
        \A i \in 1..Len(vex_trace) :
            LET v == vex_trace[i].vuln
                c == vex_trace[i].cascade
                a == vex_trace[i].analysis
                sev == Upper(Get(v, "Severity", ""))
                r1 == \E m \in {"test", "dev", "debug", "mock", "fixture"} :
                         Contains(Lower(Get(v, "PkgName", "")), m)
                r2 == sev \in {"LOW", "NEGLIGIBLE"}
                r3 == \E ph \in { "requires local access", "requires physical access",
                                  "denial of service", "information disclosure",
                                  "requires authenticated user" } :
                         Contains(Lower(Get(v, "Description", "")), ph)
                r4 == \E m \in {"documentation", "example", "sample"} :
                         Contains(Lower(Get(v, "Title", "")), m)
                r5 == sev \in {"CRITICAL", "HIGH"}
                Is(st, j) == c.state = st /\ c.justification = j
            IN  /\ r1 => Is("not_affected", "code_not_present")
                /\ (~r1 /\ r2) => Is("not_affected", "protected_by_mitigating_control")
                /\ (~r1 /\ ~r2 /\ r3) => Is("not_affected", "requires_environment")
                /\ (~r1 /\ ~r2 /\ ~r3 /\ r4) => Is("not_affected", "code_not_present")
                /\ (~r1 /\ ~r2 /\ ~r3 /\ ~r4 /\ r5) =>
                       /\ Is("under_investigation", "requires_configuration")
                       /\ c.response = <<"can_not_fix", "update">>
                /\ (~r1 /\ ~r2 /\ ~r3 /\ ~r4 /\ ~r5) =>
                       /\ Is("under_investigation", "requires_configuration")
                       /\ c.response = <<"will_not_fix">>
                /\ (Contains(Get(v, "PkgName", ""), "test-lib") /\ sev = "CRITICAL") =>
                       a.state = "not_affected" /\ a.justification = "code_not_present"

C4_Witness ==
    /\ Analysed
    /\ vex_trace[1].vuln.PkgName = "test-lib"
    /\ vex_trace[1].vuln.Severity = "CRITICAL"
    /\ "FixedVersion" \in DOMAIN vex_trace[1].vuln
    /\ vex_trace[1].analysis.state = "not_affected"
    /\ vex_trace[1].analysis.justification = "code_not_present"

\* C5: after the cascade the state is forced to affected (response {update},
\* detail suffixed with the fixed version) exactly when a non-empty
\* FixedVersion is present and the cascade's state is not not_affected; a
\* record the cascade classified not_affected keeps state, justification,
\* response and detail even when a fixed version is present.
C5_FixedVersionOverride ==
    Analysed =>
        \A i \in 1..Len(vex_trace) :
            LET c == vex_trace[i].cascade
                a == vex_trace[i].analysis
                fv == Get(vex_trace[i].vuln, "FixedVersion", "")
                forced == fv # "" /\ c.state # "not_affected"
            IN  /\ a.state = "affected" <=> forced
                /\ forced => /\ a.response = <<"update">>
                             /\ a.detail = c.detail \o ". Fixed in version " \o fv
                             /\ a.justification = c.justification
                /\ ~forced => a = c
                /\ c.state = "not_affected" => a = c

\* severity MEDIUM, classified not_affected by the cascade, with a fixed version
C5_Witness ==
    /\ Analysed
    /\ vex_trace[1].vuln.Severity = "MEDIUM"
    /\ Get(vex_trace[1].vuln, "FixedVersion", "") # ""
    /\ vex_trace[1].cascade.state = "not_affected"
    /\ vex_trace[1].analysis = vex_trace[1].cascade
    /\ vex_doc.statements[1].status = "not_affected"

IsPlaceholder(st) ==
    /\ st.vulnerability.name = "PLACEHOLDER-VEX"
    /\ st.status = "not_affected"
    /\ st.justification = "code_not_present"

\* C6: VEX generation always produces a document: when the scan document is
\* missing or cannot be parsed the document holds exactly the one placeholder
\* statement (not_affected / code_not_present), and no input scan document
\* makes the run end in an error without a document.
C6_AlwaysValidDocument ==
    (prog = "generate_vex" /\ pc = "done") =>
        /\ vex_doc # NoValue
        /\ trivy_file.state \in {"no_arg", "missing", "unparsable"} =>
              /\ Len(vex_doc.statements) = 1
              /\ IsPlaceholder(vex_doc.statements[1])

\* what does hold: an unreadable scan file yields the placeholder document
C6_PlaceholderWhenUnreadable ==
    (prog = "generate_vex" /\ pc = "done"
        /\ trivy_file.state \in {"no_arg", "missing", "unparsable"}) =>
        /\ vex_doc # NoValue
        /\ Len(vex_doc.statements) = 1
        /\ IsPlaceholder(vex_doc.statements[1])

IdentifierBuilt == prog = "create_product_identifier" /\ pc = "done"

StripHostPrefix(ref) ==
    IF StartsWith(ref, "ghcr.io/") THEN SubSeq(ref, 9, Len(ref))
    ELSE IF StartsWith(ref, "docker.io/") THEN SubSeq(ref, 11, Len(ref))
    ELSE ref

\* s without the occurrences of old, found from the left at index i onwards
RECURSIVE DeleteFrom(_, _, _)
DeleteFrom(s, old, i) ==
    IF i > Len(s) THEN ""
    ELSE IF i + Len(old) - 1 <= Len(s) /\ SubSeq(s, i, i + Len(old) - 1) = old
    THEN DeleteFrom(s, old, i + Len(old))
    ELSE Ch(s, i) \o DeleteFrom(s, old, i + 1)

ExpectedPurlPrefix(name) ==
    IF Contains(name, ".jar") \/ Contains(name, "maven") THEN "pkg:maven/"
    ELSE IF Contains(name, "node_modules") \/ Contains(name, "npm") THEN "pkg:npm/"
    ELSE IF Contains(name, "site-packages") \/ Contains(name, "pypi") THEN "pkg:pypi/"
    ELSE IF Contains(name, "apk") \/ Contains(name, "alpine") THEN "pkg:apk/"
    ELSE IF Contains(name, "deb") \/ Contains(name, "ubuntu") \/ Contains(name, "debian")
    THEN "pkg:deb/"
    ELSE "pkg:generic/"

PackageBranchAsClaimed ==
    image_ref = "" =>
        /\ StartsWith(product_id, ExpectedPurlPrefix(pkg_name))
        /\ Contains(pkg_name, "site-packages") /\ ~Contains(pkg_name, "maven")
              /\ ~Contains(pkg_name, "npm") => StartsWith(product_id, "pkg:pypi/")

\* C7 as claimed: with an artifact reference the result is the OCI package URL
\* of the reference with its registry host prefix (ghcr.io/, docker.io/)
\* stripped, whatever the package name; without one the ecosystem type is that
\* of the first matching marker in the order maven, npm, pypi, apk, deb, and
\* generic when none matches.
C7_OciOfStrippedReference ==
    IdentifierBuilt =>
        /\ image_ref # "" => product_id = "pkg:oci/" \o StripHostPrefix(image_ref)
        /\ PackageBranchAsClaimed

\* C7 as amended: a reference that already starts with pkg: is returned as it
\* is; any other reference yields pkg:oci/ followed by the reference with every
\* occurrence of ghcr.io/ and then every occurrence of docker.io/ removed,
\* wherever it stands (for a reference whose only occurrence is its host prefix
\* that is the reference without the prefix); the package branch is as claimed.
C7_ProductIdentifier ==
    IdentifierBuilt =>
        /\ (image_ref # "" /\ StartsWith(image_ref, "pkg:")) => product_id = image_ref
        /\ (image_ref # "" /\ ~StartsWith(image_ref, "pkg:")) =>
              /\ product_id =
                   "pkg:oci/" \o DeleteFrom(DeleteFrom(image_ref, "ghcr.io/", 1), "docker.io/", 1)
              /\ (image_ref = "ghcr.io/org/app:v1" \/ image_ref = "docker.io/org/app:v1")
                    => product_id = "pkg:oci/org/app:v1"
        /\ PackageBranchAsClaimed

C7_Witness ==
    /\ IdentifierBuilt
    /\ image_ref = "ghcr.io/org/app:v1"
    /\ pkg_name = "site-packages"
    /\ product_id = "pkg:oci/org/app:v1"

C7_WitnessPypi ==
    /\ IdentifierBuilt
    /\ image_ref = ""
    /\ pkg_name = "site-packagesnpm"
    /\ StartsWith(product_id, "pkg:npm/")

-----------------------------------------------------------------------------
(* verify_attestations.py *)

\* the inputs of the run as the claims describe valid ones: the whole reference
\* is a name path plus a tag or a 64-hex sha256 digest and is at most 512 long,
\* the whole repository is owner/name and is in the allow-list
ReferenceGrammar(ref) == full_match_image_ref(ref) /\ Len(ref) <= max_image_ref_length

RepositoryGrammar(repo) == full_match_repository(repo) /\ repo \in allowed_repos

ValidInputs == ReferenceGrammar(verifier.image_ref) /\ RepositoryGrammar(verifier.repository)

RunEnded == Verifying("done")

\* the run got past the construction of the verifier
Constructed == prog = "verify_attestations" /\ results.signature # "pending"

\* C8: no external command is invoked in a verification run unless the
\* reference matched the reference grammar (length at most 512) and the
\* repository matched owner/name and is in the allow-list; any other input ends
\* the run with exit status 1 before the first external call.
C8_NoCallUnlessValid ==
    prog = "verify_attestations" =>
        /\ external_calls > 0 => ValidInputs
        /\ (RunEnded /\ ~ValidInputs) => (exit_status = 1 /\ external_calls = 0)

\* what the code does guarantee for C8: no call is made unless both validators
\* of the constructor returned, and when one raises the run ends with status 1
\* and without a call
C8_NoCallUnlessConstructed ==
    prog = "verify_attestations" =>
        LET built == construct_verifier(verifier.image_ref, verifier.repository)
        IN  /\ external_calls > 0 => built
            /\ (RunEnded /\ ~built) => (exit_status = 1 /\ external_calls = 0)

C8_WitnessRejected ==
    /\ RunEnded
    /\ verifier.image_ref = "ghcr.io/org/app:../../etc"
    /\ verifier.repository = "plamen/feelgood-api"
    /\ exit_status = 1
    /\ external_calls = 0

C8_WitnessAccepted ==
    /\ prog = "verify_attestations"
    /\ verifier.image_ref = "ghcr.io/org/app:v1.2.3"
    /\ verifier.repository = "plamen/feelgood-api"
    /\ external_calls > 0

C9_WitnessSlsaVerifier ==
    /\ RunEnded /\ Constructed /\ ~aborted
    /\ results.signature = "passed"
    /\ results.provenance = "passed"
    /\ results.slsa_verifier = "failed"
    /\ report.saving # "failed"
    /\ exit_status = 1

\* C10: every external call is bounded by a timeout, and no outcome of a check
\* (non-zero exit, timeout, oversized or invalid output) aborts the run: a run
\* with validated inputs ends only after the signature, provenance, SBOM-layer
\* and VEX checks were each attempted and the report was generated.
C10_ChecksNeverAbort ==
    prog = "verify_attestations" =>
        /\ last_call # NoCall => last_call.timeout > 0
        /\ (RunEnded /\ construct_verifier(verifier.image_ref, verifier.repository)) =>
              /\ results.signature # "pending"
              /\ results.provenance # "pending"
              /\ results.sboms # "pending"
              /\ results.vex # "pending"
              /\ report # NoValue

\* the part of C10 the code keeps: every call carries a timeout, and a run ends
\* without its report only through an uncaught exception, raised after a call
\* that exited with 0 and printed JSON of another shape than the check reads
C10_AbortOnlyOnUnexpectedJson ==
    prog = "verify_attestations" =>
        /\ last_call # NoCall => last_call.timeout \in {max_command_timeout, date_timeout}
        /\ (RunEnded /\ Constructed /\ report = NoValue) =>
              /\ aborted
              /\ last_call.kind = "exit" /\ last_call.rc = 0
              /\ last_call.json = "list"
              /\ last_call.check \in {"provenance", "sboms"}
        /\ (RunEnded /\ Constructed /\ last_call.kind \in {"timeout", "exec_error"}) =>
              report # NoValue

C10_WitnessTimeouts ==
    /\ RunEnded /\ Constructed /\ ~aborted
    /\ results.signature = "failed"
    /\ results.provenance = "failed"
    /\ results.sboms = "failed"
    /\ results.vex = "failed"
    /\ report # NoValue

\* a report was generated
ReportGenerated == prog = "verify_attestations" /\ report # NoValue

\* C11: the reported slsa_level is "3+" if provenance was verified and at least
\* 3 SBOM layers and a VEX attestation were verified, else "3" if provenance
\* and at least 1 SBOM layer were verified, else "2+" if provenance was
\* verified, else "unknown" (whatever the other checks returned).
C11_SlsaLevel ==
    ReportGenerated =>
        LET provenance == results.provenance = "passed"
            layers == Len(sbom_loop.verified_sboms)
            vex == results.vex = "passed"
        IN  /\ report.slsa_level =
                  IF provenance /\ layers >= 3 /\ vex THEN "3+"
                  ELSE IF provenance /\ layers >= 1 THEN "3"
                  ELSE IF provenance THEN "2+"
                  ELSE "unknown"
            /\ report.sbom_layers_verified = layers
            /\ report.has_vex_attestations = vex

C11_Witness ==
    /\ ReportGenerated
    /\ results.provenance = "passed"
    /\ Len(sbom_loop.verified_sboms) >= 3
    /\ results.vex = "passed"
    /\ report.slsa_level = "3+"

\* three layers without VEX give "3"
C11_WitnessNoVex ==
    /\ ReportGenerated
    /\ results.provenance = "passed"
    /\ Len(sbom_loop.verified_sboms) >= 3
    /\ results.vex = "failed"
    /\ report.slsa_level = "3"

\* everything but provenance verified gives "unknown"
C11_WitnessUnknown ==
    /\ ReportGenerated
    /\ results.provenance = "failed"
    /\ results.signature = "passed"
    /\ Len(sbom_loop.verified_sboms) = 4
    /\ results.vex = "passed"
    /\ report.slsa_level = "unknown"

\* C12: every payload returned by an external verification call is checked
\* against a size cap before it is parsed: no check (provenance, SBOM-layer,
\* VEX) parses a payload as JSON without a preceding size check, and an
\* oversized payload is rejected unparsed.
C12_SizeCheckedBeforeParse ==
    prog = "verify_attestations" =>
        (last_call.parsed => (last_call.size_cap > 0 /\ last_call.size <= last_call.size_cap))

\* what holds of C12: the SBOM-layer and VEX checks compare the payload with
\* their cap (10 MB, 5 MB) before parsing and never parse a larger one; no
\* other call but the provenance call has its output parsed
C12_SbomAndVexCapped ==
    prog = "verify_attestations" =>
        /\ (last_call.check \in {"sboms", "vex"} /\ last_call.parsed) =>
              /\ last_call.size_cap =
                    (IF last_call.check = "sboms" THEN sbom_size_limit ELSE vex_size_limit)
              /\ last_call.size <= last_call.size_cap
        /\ (last_call.check \in {"sboms", "vex"} /\ last_call.kind = "exit" /\ last_call.rc = 0
              /\ last_call.size <= last_call.size_cap) => last_call.parsed
        /\ last_call.parsed => last_call.check \in {"provenance", "sboms", "vex"}

\* an oversized payload of the SBOM-layer check is left unparsed
C12_WitnessSbomRejected ==
    /\ prog = "verify_attestations"
    /\ last_call.check = "sboms"
    /\ last_call.rc = 0
    /\ last_call.size > sbom_size_limit
    /\ ~last_call.parsed

\* an oversized payload of the provenance check is parsed, and the check passes
C12_WitnessProvenanceParsed ==
    /\ prog = "verify_attestations"
    /\ last_call.check = "provenance"
    /\ last_call.size > sbom_size_limit
    /\ last_call.parsed
    /\ results.provenance = "passed"

-----------------------------------------------------------------------------
(* compare_scans.py, continued *)

CompareEnded == prog = "compare_scans" /\ pc = "done"

Unreadable(file) == file.state \in {"missing", "unparsable"}

\* C13: a previous or current scan file that is missing or unparsable is
\* treated as an empty snapshot and is never fatal: the run still completes
\* and writes a delta report computed against the empty collection.
C13_UnreadableNeverFatal ==
    (CompareEnded /\ (Unreadable(previous_file) \/ Unreadable(current_file))) =>
        /\ exit_status = 0
        /\ comparison # NoValue
        /\ Unreadable(previous_file) =>
              /\ comparison.comparison_metadata.previous_scan_vulns = 0
              /\ comparison.resolved_vulnerabilities = <<>>
        /\ Unreadable(current_file) =>
              /\ comparison.comparison_metadata.current_scan_vulns = 0
              /\ comparison.new_vulnerabilities = <<>>

\* what holds of C13: a file that exists and cannot be parsed counts as an
\* empty snapshot and the report is written, provided the other file exists
C13_UnparsableIsEmpty ==
    (CompareEnded /\ previous_file.state # "missing" /\ current_file.state # "missing") =>
        /\ exit_status = 0
        /\ comparison # NoValue
        /\ previous_file.state = "unparsable" =>
              /\ comparison.comparison_metadata.previous_scan_vulns = 0
              /\ comparison.resolved_vulnerabilities = <<>>
              /\ comparison.comparison_metadata.new_vulnerabilities_count =
                    comparison.comparison_metadata.current_scan_vulns
        /\ current_file.state = "unparsable" =>
              /\ comparison.comparison_metadata.current_scan_vulns = 0
              /\ comparison.new_vulnerabilities = <<>>
              /\ comparison.comparison_metadata.resolved_vulnerabilities_count =
                    comparison.comparison_metadata.previous_scan_vulns

\* and a file that does not exist ends the run with status 1 and no report
C13_MissingIsFatal ==
    (CompareEnded /\ (previous_file.state = "missing" \/ current_file.state = "missing")) =>
        (exit_status = 1 /\ comparison = NoValue)

C13_WitnessUnparsable ==
    /\ CompareEnded
    /\ previous_file.state = "unparsable"
    /\ current_file.state = "ok" /\ Len(current_file.entries) = 2
    /\ comparison # NoValue
    /\ comparison.comparison_metadata.new_vulnerabilities_count = 2

C13_WitnessMissing ==
    /\ CompareEnded
    /\ previous_file.state = "missing"
    /\ current_file.state = "ok" /\ Len(current_file.entries) = 2
    /\ exit_status = 1

ReportFields ==
    { "comparison_metadata", "new_vulnerabilities", "resolved_vulnerabilities",
      "unchanged_vulnerabilities", "summary", "new_vulnerabilities_by_severity",
      "high_priority_new_vulnerabilities" }

\* C14: every delta report produced by compare_scans, for any pair of
\* snapshots (those with no added vulnerabilities included), contains all
\* seven top-level fields.
C14_AllSevenFields == Reported => DOMAIN comparison = ReportFields

\* what holds of C14: six of the fields are in every report, and
\* new_vulnerabilities_by_severity is there iff a vulnerability was added
C14_SixFieldsAlways ==
    Reported =>
        /\ ReportFields \ {"new_vulnerabilities_by_severity"} \subseteq DOMAIN comparison
        /\ DOMAIN comparison \subseteq ReportFields
        /\ "new_vulnerabilities_by_severity" \in DOMAIN comparison
              <=> comparison.new_vulnerabilities # <<>>

C14_WitnessAdded ==
    /\ Reported
    /\ comparison.new_vulnerabilities # <<>>
    /\ DOMAIN comparison = ReportFields

C14_WitnessNoneAdded ==
    /\ Reported
    /\ previous_file.state = "ok" /\ current_file.state = "ok"
    /\ current_file.entries # <<>>
    /\ comparison.new_vulnerabilities = <<>>
    /\ "new_vulnerabilities_by_severity" \notin DOMAIN comparison

\* the keys of the entries of a parsed file whose own processing does not raise
SoundKeys(file) ==
    {vuln_key(file.entries[i]) : i \in {n \in 1..Len(file.entries) : ~entry_raises(file.entries[n])}}

\* the records of the report
ReportedRecords ==
    Range(comparison.new_vulnerabilities) \cup Range(comparison.resolved_vulnerabilities)
        \cup Range(comparison.unchanged_vulnerabilities)

\* C15: extraction never fails on a single bad record: for a parsed document
\* in which some entry has missing or malformed fields, the snapshot still
\* holds a record for every sibling entry, each missing field defaulted (empty
\* string, UNKNOWN for severity); a snapshot is emptied only when the document
\* cannot be parsed.
C15_BadRecordKeepsSiblings ==
    Reported =>
        /\ previous_file.state = "ok" => SoundKeys(previous_file) \subseteq cmp_locals.previous_keys
        /\ current_file.state = "ok" => SoundKeys(current_file) \subseteq cmp_locals.current_keys
        /\ (current_file.state = "ok" /\ EntryWithoutFields \in Range(current_file.entries)) =>
              \E r \in ReportedRecords :
                  /\ r.id = "" /\ r.package = "" /\ r.installed_version = ""
                  /\ r.fixed_version = "" /\ r.severity = "UNKNOWN" /\ r.target = "x"

\* what holds of C15: an entry with missing fields gets the defaults and its
\* siblings are kept, as long as no entry of the document makes the loop raise
C15_MissingFieldsDefaulted ==
    (Reported /\ current_file.state = "ok" /\ ~extract_raises(current_file.entries)) =>
        /\ SoundKeys(current_file) = cmp_locals.current_keys
        /\ EntryWithoutFields \in Range(current_file.entries) =>
              \E r \in ReportedRecords :
                  /\ r.id = "" /\ r.package = "" /\ r.installed_version = ""
                  /\ r.fixed_version = "" /\ r.severity = "UNKNOWN" /\ r.target = "x"
                  /\ r.cvss_score = 0

\* and one entry that makes the loop raise empties the whole snapshot
C15_OneBadRecordEmptiesSnapshot ==
    (Reported /\ current_file.state = "ok" /\ extract_raises(current_file.entries)) =>
        cmp_locals.current_keys = {}

C15_WitnessDefaults ==
    /\ Reported
    /\ current_file.state = "ok" /\ Len(current_file.entries) = 2
    /\ EntryWithoutFields \in Range(current_file.entries)
    /\ Cardinality(cmp_locals.current_keys) = 2

C15_WitnessEmptied ==
    /\ Reported
    /\ current_file.state = "ok" /\ Len(current_file.entries) = 2
    /\ EntryWithNullCvss \in Range(current_file.entries)
    /\ SoundKeys(current_file) # {}
    /\ cmp_locals.current_keys = {}

\* the composite identity of a scan entry
Identity(vuln) ==
    << Get(vuln, "VulnerabilityID", ""), Get(vuln, "PkgName", ""),
       Get(vuln, "InstalledVersion", ""), Get(vuln, "Target", "unknown") >>

RecordIdentity(r) == <<r.id, r.package, r.installed_version, r.target>>

\* the records of the current snapshot, as the report lists them
CurrentRecords == comparison.new_vulnerabilities \o comparison.unchanged_vulnerabilities

\* C16: a snapshot is keyed by the composite identity (vulnerability id,
\* package name, installed version, scan target): no two records of one
\* snapshot share an identity, and two scan entries end up as the same record
\* only if all four identity components are equal.
C16_IdentityKeyed ==
    Reported =>
        /\ \A i, j \in 1..Len(CurrentRecords) :
              RecordIdentity(CurrentRecords[i]) = RecordIdentity(CurrentRecords[j]) => i = j
        /\ LET es == SnapshotEntries(current_file)
           IN  /\ \A i, j \in 1..Len(es) :
                     vuln_key(es[i]) = vuln_key(es[j]) => Identity(es[i]) = Identity(es[j])
               /\ comparison.comparison_metadata.current_scan_vulns =
                     Cardinality({Identity(es[i]) : i \in 1..Len(es)})

\* what holds of C16: the records of a snapshot have pairwise different
\* identities, and entries of equal identity are one record
C16_RecordsDistinct ==
    Reported =>
        /\ \A i, j \in 1..Len(CurrentRecords) :
              RecordIdentity(CurrentRecords[i]) = RecordIdentity(CurrentRecords[j]) => i = j
        /\ LET es == SnapshotEntries(current_file)
           IN  /\ \A i, j \in 1..Len(es) :
                     Identity(es[i]) = Identity(es[j]) => vuln_key(es[i]) = vuln_key(es[j])
               /\ comparison.comparison_metadata.current_scan_vulns
                     <= Cardinality({Identity(es[i]) : i \in 1..Len(es)})

\* the two entries of different identity are one record, the later one
C16_WitnessCollision ==
    /\ Reported
    /\ current_file.state = "ok"
    /\ current_file.entries = <<EntryWithEpochVersion, EntryWithColonName>>
    /\ comparison.comparison_metadata.current_scan_vulns = 1
    /\ comparison.summary.risk_level = "MEDIUM"

\* two entries of one identity are one record
C16_WitnessSameIdentity ==
    /\ Reported
    /\ current_file.state = "ok" /\ Len(current_file.entries) = 2
    /\ Identity(current_file.entries[1]) = Identity(current_file.entries[2])
    /\ current_file.entries[1] # current_file.entries[2]
    /\ comparison.comparison_metadata.current_scan_vulns = 1

-----------------------------------------------------------------------------
(* src/app.py, src/phrases.py *)

Answered == prog = "app" /\ http_response # NoValue

PhraseAsked == Answered /\ http_request.path = "/phrase" /\ phrase_result # NoValue

KnownCategories == {"motivation", "gratitude", "kindness", "growth"}

\* C17: get_phrase returns a pair (phrase, category) where category is one of
\* the known categories and phrase is a member of that category's list; when a
\* known category is requested, the returned category is the requested one.
\* The /phrase endpoint answers with that pair.
C17_PhraseOfCategory ==
    (PhraseAsked /\ ~phrase_result.raised) =>
        /\ phrase_result.category \in KnownCategories
        /\ \E i \in 1..Len(phrases[phrase_result.category]) :
              phrases[phrase_result.category][i] = phrase_result.phrase
        /\ (phrase_result.requested # None /\ phrase_result.requested[1] \in KnownCategories)
              => phrase_result.category = phrase_result.requested[1]
        /\ http_response.status = 200
        /\ http_response.body.phrase = phrase_result.phrase
        /\ http_response.body.category = phrase_result.category

C17_Witness ==
    /\ PhraseAsked
    /\ http_request.category = Some("growth")
    /\ http_response.status = 200
    /\ http_response.body.category = "growth"
    /\ http_response.body.phrase = "Progress, not perfection."

C17_WitnessRandom ==
    /\ PhraseAsked
    /\ http_request.category = None
    /\ http_response.status = 200
    /\ http_response.body.category = "kindness"

\* C18 as claimed: a category that is not one of the known categories is an
\* error: get_phrase raises ValueError and /phrase answers with status 400,
\* never with a phrase.
C18_UnknownCategoryIsError ==
    (PhraseAsked /\ http_request.category # None
        /\ http_request.category[1] \notin KnownCategories) =>
        /\ phrase_result.raised
        /\ http_response.status = 400
        /\ "phrase" \notin DOMAIN http_response.body

\* C18 as amended: a non-empty category that is not one of the known
\* categories is an error (ValueError, status 400, no phrase); the empty
\* category is taken as no category and answered with a phrase of a random
\* known category; nothing else makes /phrase answer 400.
C18_NonEmptyUnknownCategoryIsError ==
    PhraseAsked =>
        LET unknown == /\ http_request.category # None
                       /\ http_request.category[1] # ""
                       /\ http_request.category[1] \notin KnownCategories
        IN  /\ unknown =>
                  /\ phrase_result.raised
                  /\ http_response.status = 400
                  /\ "phrase" \notin DOMAIN http_response.body
            /\ ~unknown =>
                  /\ ~phrase_result.raised
                  /\ http_response.status = 200
                  /\ http_response.body.category \in KnownCategories

C18_Witness ==
    /\ PhraseAsked
    /\ http_request.category = Some("invalid")
    /\ phrase_result.raised
    /\ http_response.status = 400

C18_WitnessEmpty ==
    /\ PhraseAsked
    /\ http_request.category = Some("")
    /\ http_response.status = 200
    /\ "phrase" \in DOMAIN http_response.body

\* C19: every HTTP response of the service, for every endpoint and outcome
\* (error responses included), carries the security headers
\* X-Content-Type-Options, X-Frame-Options and X-SBOM-Location.
C19_SecurityHeadersOnEveryResponse ==
    Answered =>
        {"X-Content-Type-Options", "X-Frame-Options", "X-SBOM-Location"}
            \subseteq DOMAIN http_response.headers

\* what holds of C19: the headers are on every response that the routes
\* return, error responses (400, 404, 405) included; they are missing exactly
\* on the answers to CORS preflight requests and on the 500 answers to an
\* exception that no handler takes
C19_HeadersOnRoutedResponses ==
    Answered =>
        ( {"X-Content-Type-Options", "X-Frame-Options", "X-SBOM-Location"}
              \subseteq DOMAIN http_response.headers
          <=> ~(is_preflight(http_request) \/ http_response.status = 500) )

C19_WitnessError ==
    /\ Answered
    /\ http_response.status = 400
    /\ http_response.headers["X-Frame-Options"] = "DENY"
    /\ http_response.headers["X-SBOM-Location"] = "/security/sbom"

C19_WitnessPreflight ==
    /\ Answered
    /\ http_request.path = "/phrase"
    /\ is_preflight(http_request)
    /\ http_response.status = 200
    /\ "X-Frame-Options" \notin DOMAIN http_response.headers

-----------------------------------------------------------------------------
(* compare_scans.py: highest_severity_new *)

\* the added records in the insertion order of the current snapshot
AddedInInsertionOrder ==
    LET cur == load_scan(current_file)
        added == SelectSeq(cur, LAMBDA item : item.key \in cmp_locals.new_vuln_keys)
    IN  [i \in 1..Len(added) |-> added[i].value]

SummaryOf(r) ==
    [id |-> r.id, severity |-> r.severity, package |-> r.package, cvss_score |-> r.cvss_score]

MaxAddedRank ==
    CHOOSE n \in 0..5 :
        /\ \E i \in 1..Len(AddedInInsertionOrder) :
              severity_order(AddedInInsertionOrder[i].severity) = n
        /\ \A i \in 1..Len(AddedInInsertionOrder) :
              severity_order(AddedInInsertionOrder[i].severity) <= n

SomethingAdded == Reported /\ comparison.new_vulnerabilities # <<>>

\* C20: highest_severity_new is the added record with the maximum severity
\* rank (CRITICAL=5 ... UNKNOWN or unrecognised=0); when several added records
\* tie on the maximum rank, it is the first of them in the insertion order of
\* the current snapshot, so the choice is fixed by the pair of snapshots.
C20_HighestFirstInserted ==
    SomethingAdded =>
        LET first == CHOOSE i \in 1..Len(AddedInInsertionOrder) :
                        /\ severity_order(AddedInInsertionOrder[i].severity) = MaxAddedRank
                        /\ \A j \in 1..(i - 1) :
                              severity_order(AddedInInsertionOrder[j].severity) < MaxAddedRank
        IN  comparison.summary.highest_severity_new = SummaryOf(AddedInInsertionOrder[first])

\* what holds of C20: highest_severity_new is an added record of the maximum
\* rank, the first of that rank in the order in which the set of added keys
\* is iterated (the order of new_vulnerabilities)
C20_HighestHasMaxRank ==
    SomethingAdded =>
        LET listed == comparison.new_vulnerabilities
        IN  /\ severity_order(comparison.summary.highest_severity_new.severity) = MaxAddedRank
            /\ \E i \in 1..Len(listed) :
                  /\ comparison.summary.highest_severity_new = SummaryOf(listed[i])
                  /\ severity_order(listed[i].severity) = MaxAddedRank
                  /\ \A j \in 1..(i - 1) : severity_order(listed[j].severity) < MaxAddedRank

\* two added records tie on the maximum rank and the later inserted is chosen
C20_WitnessTie ==
    /\ SomethingAdded
    /\ Len(AddedInInsertionOrder) = 2
    /\ AddedInInsertionOrder[1].severity = "HIGH"
    /\ AddedInInsertionOrder[2].severity = "HIGH"
    /\ AddedInInsertionOrder[1].id # AddedInInsertionOrder[2].id
    /\ comparison.summary.highest_severity_new.id = AddedInInsertionOrder[2].id

\* no tie: the record of the greater rank is chosen though listed second
C20_WitnessMax ==
    /\ SomethingAdded
    /\ Len(comparison.new_vulnerabilities) = 2
    /\ comparison.new_vulnerabilities[1].severity = "LOW"
    /\ comparison.new_vulnerabilities[2].severity = "CRITICAL"
    /\ comparison.summary.highest_severity_new.severity = "CRITICAL"

-----------------------------------------------------------------------------
(* compare_scans.py: get_cvss_score *)

\* a value that is a score: a number other than zero, or text that reads as one
UsableScore(v) == Truthy(v) /\ ~float_of(v).raised

\* the score of the first source, in the order given, that carries a usable
\* score, its V3 score before its V2 score; 0 when there is none
RECURSIVE FirstUsableScore(_, _)
FirstUsableScore(sources, cvss) ==
    IF sources = <<>> THEN 0
    ELSE LET source == Get(cvss, Head(sources), <<>>)
             v3 == Get(source, "V3Score", JsonNull)
             v2 == Get(source, "V2Score", JsonNull)
         IN  IF UsableScore(v3) THEN float_of(v3).score
             ELSE IF UsableScore(v2) THEN float_of(v2).score
             ELSE FirstUsableScore(Tail(sources), cvss)

\* the entries of the current document that get_cvss_score was called on
ScoredEntries ==
    IF CompareEnded /\ exit_status = 0 /\ current_file.state = "ok"
    THEN Range(current_file.entries) \ {JsonNull}
    ELSE {}

\* C21: get_cvss_score probes nvd, redhat, ubuntu in this order and returns
\* the score of the first source that yields a numeric value, its V3 score
\* before its V2 score; it returns 0.0 when no source yields a value, and a
\* source that is present without a usable score does not stop the probe.
C21_FirstScoreInPriorityOrder ==
    \A vuln \in ScoredEntries :
        get_cvss_score(vuln) =
            [ raised |-> FALSE,
              score |-> FirstUsableScore(<<"nvd", "redhat", "ubuntu">>, Get(vuln, "CVSS", <<>>)) ]

\* what holds of C21: whenever the call returns, it returns that score
C21_ScoreWhenReturned ==
    \A vuln \in ScoredEntries :
        ~get_cvss_score(vuln).raised =>
            get_cvss_score(vuln).score =
                FirstUsableScore(<<"nvd", "redhat", "ubuntu">>, Get(vuln, "CVSS", <<>>))

\* the first source is skipped for its zero, the second gives its V2 score
\* though the third has a greater V3 score
C21_WitnessPriority ==
    /\ EntryWithScores \in ScoredEntries
    /\ get_cvss_score(EntryWithScores) = [raised |-> FALSE, score |-> 75]

\* the call raises on the text of the first source instead of going on
C21_WitnessRaised ==
    /\ EntryWithTextScore \in ScoredEntries
    /\ get_cvss_score(EntryWithTextScore).raised
    /\ comparison.comparison_metadata.current_scan_vulns = 0

-----------------------------------------------------------------------------
(* generate_vex.py: the fields of a statement *)

\* generate_vex_from_trivy has returned a document
VexBuilt == prog = "generate_vex" /\ vex_doc # NoValue

\* the document was built from the entries of a scan, statement i from entry i
VexFromScan == VexBuilt /\ trivy_file.state = "ok"

\* C22: the classifier's justification is populated for every state: every
\* statement emitted by generate_vex_from_trivy carries a justification
\* field, also the statements of status under_investigation or affected.
C22_JustificationInEveryStatement ==
    VexBuilt =>
        \A i \in 1..Len(vex_doc.statements) :
            /\ "justification" \in DOMAIN vex_doc.statements[i]
            /\ vex_doc.statements[i].justification # ""
            /\ VexFromScan =>
                  vex_doc.statements[i].justification = vex_trace[i].analysis.justification

C22_WitnessUnderInvestigation ==
    /\ VexFromScan
    /\ \E i \in 1..Len(vex_doc.statements) :
          /\ vex_doc.statements[i].status = "under_investigation"
          /\ vex_doc.statements[i].justification = "requires_configuration"

C22_WitnessAffected ==
    /\ VexFromScan
    /\ \E i \in 1..Len(vex_doc.statements) :
          /\ vex_doc.statements[i].status = "affected"
          /\ vex_doc.statements[i].justification = "requires_configuration"

-----------------------------------------------------------------------------
(* verify_attestations.py: a failed tool invocation *)

\* the last call returned non-zero or timed out (or could not be started)
CallFailed == last_call.kind # "exit" \/ last_call.rc # 0

\* the last call completed with an output that is oversized for the check that
\* reads it, or that is not JSON
OutputRejected(limit) ==
    /\ last_call.kind = "exit" /\ last_call.rc = 0
    /\ last_call.size > limit \/ last_call.json = "invalid"

\* the layer type the last call of the SBOM-layer check was made for
LayerOfLastCall == sbom_types[sbom_loop.index - 1]

\* C23: a check whose tool invocation returns non-zero, times out, or returns
\* oversized or invalid output is recorded as not verified: its tag is never
\* added to verified_components; and when that check is the signature or the
\* provenance check the overall status is FAILED.
C23_FailedCallNotVerified ==
    prog = "verify_attestations" =>
        /\ (last_call.check = "signature" /\ CallFailed) =>
              /\ ~Member("signature", verified_components)
              /\ ~all_passed
        /\ (last_call.check = "provenance" /\ (CallFailed \/ OutputRejected(sbom_size_limit))) =>
              /\ ~Member("slsa-provenance", verified_components)
              /\ ~all_passed
        /\ (last_call.check = "sboms" /\ (CallFailed \/ OutputRejected(sbom_size_limit))) =>
              /\ ~Member(LayerOfLastCall, sbom_loop.verified_sboms)
              /\ ~Member("sbom-" \o LayerOfLastCall, verified_components)
        /\ (last_call.check = "vex" /\ (CallFailed \/ OutputRejected(vex_size_limit))) =>
              ~Member("vex-attestations", verified_components)
        /\ (RunEnded /\ ~all_passed) => exit_status = 1

\* what holds of C23: the same, but for the provenance check only when its
\* call returns non-zero or times out; an output of the provenance call that
\* is oversized or not JSON leaves its tag added and the check passed (unless
\* the output is a JSON list, on which the summary raises)
C23_FailedCallButProvenanceOutput ==
    prog = "verify_attestations" =>
        /\ (last_call.check = "signature" /\ CallFailed) =>
              /\ ~Member("signature", verified_components)
              /\ ~all_passed
        /\ (last_call.check = "provenance" /\ CallFailed) =>
              /\ ~Member("slsa-provenance", verified_components)
              /\ ~all_passed
        /\ (last_call.check = "provenance" /\ OutputRejected(sbom_size_limit)) =>
              /\ Member("slsa-provenance", verified_components)
              /\ aborted \/ results.provenance = "passed"
        /\ (last_call.check = "sboms" /\ (CallFailed \/ OutputRejected(sbom_size_limit))) =>
              /\ ~Member(LayerOfLastCall, sbom_loop.verified_sboms)
              /\ ~Member("sbom-" \o LayerOfLastCall, verified_components)
        /\ (last_call.check = "vex" /\ (CallFailed \/ OutputRejected(vex_size_limit))) =>
              ~Member("vex-attestations", verified_components)
        /\ (RunEnded /\ ~all_passed) => exit_status = 1

\* cosign exits 0 on the provenance call with an output that is not JSON: the
\* tag is added and the check passes
C23_WitnessProvenanceInvalid ==
    /\ prog = "verify_attestations"
    /\ last_call.check = "provenance" /\ last_call.rc = 0 /\ last_call.json = "invalid"
    /\ last_call.size <= vex_size_limit
    /\ Member("slsa-provenance", verified_components)
    /\ results.provenance = "passed" /\ all_passed

\* the VEX call returns output that is not JSON and the tag is not added
C23_WitnessVexInvalid ==
    /\ prog = "verify_attestations"
    /\ last_call.check = "vex" /\ last_call.rc = 0 /\ last_call.json = "invalid"
    /\ last_call.size <= vex_size_limit
    /\ results.vex = "failed"

-----------------------------------------------------------------------------
(* verify_attestations.py: matching an attestation to an SBOM layer *)

\* at least one iteration of the loop of verify_multi_layer_sboms has ended
LayerChecked == prog = "verify_attestations" /\ sbom_loop.index > 1

\* the layer type of the last iteration was counted as verified
LayerCounted == Member(LayerOfLastCall, sbom_loop.verified_sboms)

\* the attestation names the layer type in its layer properties
MatchedByProperties(attestation, sbom_type) ==
    \/ attestation.layer = sbom_type
    \/ sbom_type = "consolidated" /\ Contains(attestation.layer_types, "build-time")

\* the attestation carries no slsa:layer property (it names no layer of its own)
WithoutLayerMetadata(attestation) == attestation.layer = ""

\* C24: in the SBOM-layer check an attestation is matched to a layer by its
\* embedded layer properties; only an attestation that carries no explicit
\* layer metadata is matched by default, and then only to the build-time or
\* container layers, never to runtime-filtered or consolidated.
C24_DefaultOnlyWithoutMetadata ==
    LayerChecked =>
        ( LayerCounted <=>
            \E i \in 1..Len(sbom_loop.attestations) :
                \/ MatchedByProperties(sbom_loop.attestations[i], LayerOfLastCall)
                \/ /\ WithoutLayerMetadata(sbom_loop.attestations[i])
                   /\ LayerOfLastCall \in {"build-time", "container"} )

\* what holds of C24: runtime-filtered and consolidated are counted only for an
\* attestation that names them in its properties; build-time and container are
\* counted for any attestation that is returned, whatever layer it names
C24_DefaultForAnyAttestation ==
    LayerChecked =>
        ( LayerCounted <=>
            \E i \in 1..Len(sbom_loop.attestations) :
                \/ MatchedByProperties(sbom_loop.attestations[i], LayerOfLastCall)
                \/ LayerOfLastCall \in {"build-time", "container"} )

\* an attestation that names the runtime-filtered layer is counted for the
\* container layer
C24_WitnessOtherLayer ==
    /\ LayerChecked
    /\ LayerOfLastCall = "container"
    /\ Len(sbom_loop.attestations) = 1
    /\ sbom_loop.attestations[1].layer = "runtime-filtered"
    /\ LayerCounted

\* an attestation without layer metadata is not counted for runtime-filtered
C24_WitnessNoDefault ==
    /\ LayerChecked
    /\ LayerOfLastCall = "runtime-filtered"
    /\ Len(sbom_loop.attestations) = 1
    /\ WithoutLayerMetadata(sbom_loop.attestations[1])
    /\ ~LayerCounted

-----------------------------------------------------------------------------
(* verify_attestations.py: counting the SBOM layers *)

\* every call of the SBOM-layer check returned the one attestation, which
\* carries no layer metadata
OneBareAttestation ==
    /\ sbom_loop.index > Len(sbom_types)
    /\ sbom_loop.same_output
    /\ sbom_loop.attestations = <<[type |-> "object", layer |-> "", layer_types |-> ""]>>

NoDuplicates(xs) == \A i, j \in 1..Len(xs) : xs[i] = xs[j] => i = j

\* C25: the SBOM-layer matching can double-count: a single returned
\* attestation with no layer metadata is counted as verified for both the
\* build-time and the container layer in the same run, so
\* sbom_layers_verified is 2 with only one attestation present; each layer
\* type is counted at most once, so sbom_layers_verified never exceeds 4.
C25_DoubleCountAtMostFour ==
    /\ (prog = "verify_attestations" /\ OneBareAttestation) =>
          /\ sbom_loop.verified_sboms = <<"build-time", "container">>
          /\ Member("sbom-build-time", verified_components)
          /\ Member("sbom-container", verified_components)
    /\ ReportGenerated =>
          /\ OneBareAttestation => report.sbom_layers_verified = 2
          /\ report.sbom_layers_verified = Len(sbom_loop.verified_sboms)
          /\ report.sbom_layers_verified <= 4
    /\ prog = "verify_attestations" =>
          /\ NoDuplicates(sbom_loop.verified_sboms)
          /\ \A i \in 1..Len(sbom_loop.verified_sboms) :
                sbom_loop.verified_sboms[i] \in Range(sbom_types)

C25_Witness ==
    /\ ReportGenerated
    /\ OneBareAttestation
    /\ report.sbom_layers_verified = 2
    /\ report.slsa_level \in {"3", "unknown"}

\* all four layer types are counted, each once
C25_WitnessFour ==
    /\ ReportGenerated
    /\ report.sbom_layers_verified = 4
    /\ sbom_loop.verified_sboms = sbom_types

-----------------------------------------------------------------------------
(* compare_scans.py: records that changed under the same identity *)

\* the identities of both snapshots whose record differs between them
ChangedKeys ==
    LET prev == load_scan(previous_file)
        cur == load_scan(current_file)
    IN  {k \in DictKeys(prev) \cap DictKeys(cur) : DictGet(prev, k) # DictGet(cur, k)}

\* the previous snapshot with every record that is also in the current
\* snapshot replaced by the current one: the same pair without the changes
PreviousWithoutChanges ==
    LET prev == load_scan(previous_file)
        cur == load_scan(current_file)
    IN  [ i \in 1..Len(prev) |->
            IF prev[i].key \in DictKeys(cur)
            THEN [key |-> prev[i].key, value |-> DictGet(cur, prev[i].key)]
            ELSE prev[i] ]

\* risk_level of the report for two snapshots (it does not depend on the
\* iteration orders of the key sets)
RiskLevelOf(prev, cur) ==
    LET keys == compare_keys(prev, cur)
        new_order == CHOOSE o \in Orders(keys.new_vuln_keys) : TRUE
        resolved_order == CHOOSE o \in Orders(keys.resolved_vuln_keys) : TRUE
    IN  generate_summary(new_order, resolved_order, cur, prev).risk_level

\* C26: the diff compares identities only: a vulnerability present in both
\* snapshots under the same identity is reported as unchanged, with the
\* current snapshot's record, even if its severity or fixed version differs
\* between the scans, and such a change never alters risk_level, the added
\* set or the resolved set.
C26_IdentityOnlyDiff ==
    Reported =>
        LET prev == load_scan(previous_file)
            cur == load_scan(current_file)
            both == DictKeys(prev) \cap DictKeys(cur)
            without == compare_keys(PreviousWithoutChanges, cur)
        IN  /\ cmp_locals.unchanged_vuln_keys = both
            /\ Len(comparison.unchanged_vulnerabilities) = Cardinality(both)
            /\ \A k \in both :
                  /\ \E i \in 1..Len(comparison.unchanged_vulnerabilities) :
                        comparison.unchanged_vulnerabilities[i] = DictGet(cur, k)
                  /\ k \notin cmp_locals.new_vuln_keys \cup cmp_locals.resolved_vuln_keys
            /\ cmp_locals.new_vuln_keys = without.new_vuln_keys
            /\ cmp_locals.resolved_vuln_keys = without.resolved_vuln_keys
            /\ comparison.summary.risk_level = RiskLevelOf(PreviousWithoutChanges, cur)

\* a record that went from HIGH without a fix to CRITICAL with one is reported
\* as unchanged and the risk level is LOW
C26_Witness ==
    /\ Reported
    /\ \E k \in ChangedKeys :
          /\ DictGet(load_scan(previous_file), k).severity = "HIGH"
          /\ DictGet(load_scan(previous_file), k).fixed_version = ""
          /\ DictGet(load_scan(current_file), k).severity = "CRITICAL"
          /\ DictGet(load_scan(current_file), k).fixed_version = "2"
          /\ \E i \in 1..Len(comparison.unchanged_vulnerabilities) :
                comparison.unchanged_vulnerabilities[i] = DictGet(load_scan(current_file), k)
    /\ comparison.new_vulnerabilities = <<>>
    /\ comparison.resolved_vulnerabilities = <<>>
    /\ comparison.summary.risk_level = "LOW"

-----------------------------------------------------------------------------
(* compare_scans.py: the derived fields of a report *)

\* the severity of highest_severity_new, "" when the report has none
HighestSeverityNew ==
    IF "highest_severity_new" \in DOMAIN comparison.summary
    THEN comparison.summary.highest_severity_new.severity
    ELSE ""

\* C27: the derived fields of a delta report agree with each other for every
\* pair of snapshots: risk_level is CRITICAL iff highest_severity_new has
\* severity CRITICAL, is HIGH iff highest_severity_new has severity HIGH, and
\* high_priority_new_vulnerabilities is non-empty iff risk_level is CRITICAL
\* or HIGH; it contains exactly the added records of severity CRITICAL or HIGH.
C27_DerivedFieldsAgree ==
    Reported =>
        LET added == comparison.new_vulnerabilities
            urgent == comparison.high_priority_new_vulnerabilities
            Urgent(i) == added[i].severity \in {"CRITICAL", "HIGH"}
        IN  /\ comparison.summary.risk_level = "CRITICAL" <=> HighestSeverityNew = "CRITICAL"
            /\ comparison.summary.risk_level = "HIGH" <=> HighestSeverityNew = "HIGH"
            /\ urgent # <<>> <=> comparison.summary.risk_level \in {"CRITICAL", "HIGH"}
            /\ \A i \in 1..Len(urgent) :
                  \E j \in 1..Len(added) : Urgent(j) /\ urgent[i] = added[j]
            /\ \A j \in 1..Len(added) :
                  Urgent(j) => \E i \in 1..Len(urgent) : urgent[i] = added[j]
            /\ Len(urgent) = Cardinality({j \in 1..Len(added) : Urgent(j)})

\* a HIGH and a LOW record are added: risk HIGH, one high-priority record
C27_Witness ==
    /\ Reported
    /\ Len(comparison.new_vulnerabilities) = 2
    /\ comparison.new_vulnerabilities[1].severity = "LOW"
    /\ comparison.new_vulnerabilities[2].severity = "HIGH"
    /\ comparison.summary.risk_level = "HIGH"
    /\ HighestSeverityNew = "HIGH"
    /\ Len(comparison.high_priority_new_vulnerabilities) = 1
    /\ comparison.high_priority_new_vulnerabilities[1] = comparison.new_vulnerabilities[2]

\* only records below HIGH are added: risk MEDIUM, no high-priority record
C27_WitnessMedium ==
    /\ Reported
    /\ comparison.new_vulnerabilities # <<>>
    /\ comparison.summary.risk_level = "MEDIUM"
    /\ HighestSeverityNew \in {"LOW", "MEDIUM", "UNKNOWN"}
    /\ comparison.high_priority_new_vulnerabilities = <<>>

-----------------------------------------------------------------------------
(* generate_vex.py: the states of analyze_vulnerability *)

\* one of the four rules that give not_affected matches the record
NotAffectedRuleMatches(v) ==
    \/ \E marker \in {"test", "dev", "debug", "mock", "fixture"} :
          Contains(Lower(Get(v, "PkgName", "")), marker)
    \/ Upper(Get(v, "Severity", "")) \in {"LOW", "NEGLIGIBLE"}
    \/ \E phrase \in { "requires local access", "requires physical access",
                       "denial of service", "information disclosure",
                       "requires authenticated user" } :
          Contains(Lower(Get(v, "Description", "")), phrase)
    \/ \E word \in {"documentation", "example", "sample"} :
          Contains(Lower(Get(v, "Title", "")), word)

\* C28: for every input record, analyze_vulnerability returns a state in
\* {affected, not_affected, under_investigation} and never "fixed"; the state
\* is affected iff FixedVersion is non-empty and none of the four not_affected
\* rules matched, and it is under_investigation iff FixedVersion is empty and
\* none of those rules matched.
C28_StatesOfAnalysis ==
    Analysed =>
        \A i \in 1..Len(vex_trace) :
            LET v == vex_trace[i].vuln
                state == vex_trace[i].analysis.state
                fixable == Get(v, "FixedVersion", "") # ""
            IN  /\ state \in {"affected", "not_affected", "under_investigation"}
                /\ state # "fixed"
                /\ state = "affected" <=> (fixable /\ ~NotAffectedRuleMatches(v))
                /\ state = "under_investigation" <=> (~fixable /\ ~NotAffectedRuleMatches(v))
                /\ vex_doc.statements[i].status = state

\* a record with a fixed version that no rule matches is affected
C28_Witness ==
    /\ Analysed
    /\ \E i \in 1..Len(vex_trace) :
          /\ Get(vex_trace[i].vuln, "FixedVersion", "") = "1.2.4"
          /\ ~NotAffectedRuleMatches(vex_trace[i].vuln)
          /\ vex_trace[i].analysis.state = "affected"
          /\ vex_doc.statements[i].status = "affected"

\* a record with a fixed version that a rule matches stays not_affected
C28_WitnessNotAffected ==
    /\ Analysed
    /\ \E i \in 1..Len(vex_trace) :
          /\ Get(vex_trace[i].vuln, "FixedVersion", "") = "1.2.4"
          /\ NotAffectedRuleMatches(vex_trace[i].vuln)
          /\ vex_trace[i].analysis.state = "not_affected"

\* a record without a fixed version that no rule matches
C28_WitnessUnderInvestigation ==
    /\ Analysed
    /\ \E i \in 1..Len(vex_trace) :
          /\ "FixedVersion" \notin DOMAIN vex_trace[i].vuln
          /\ ~NotAffectedRuleMatches(vex_trace[i].vuln)
          /\ vex_trace[i].analysis.state = "under_investigation"

-----------------------------------------------------------------------------
(* generate_vex.py: action_statement and impact_statement *)

\* action_statement is in the statement iff its status is not_affected, and is
\* then will_not_fix
ActionIffNotAffected(st) ==
    /\ "action_statement" \in DOMAIN st <=> st.status = "not_affected"
    /\ "action_statement" \in DOMAIN st => st.action_statement = "will_not_fix"

\* no field of the statement holds a response other than will_not_fix
NoOtherResponse(st) ==
    /\ "response" \notin DOMAIN st
    /\ "action_statement" \in DOMAIN st => st.action_statement \notin {"update", "can_not_fix"}

\* C29: in every emitted VEX statement, action_statement is present iff the
\* status is not_affected (and is then will_not_fix), and impact_statement is
\* present only if the status is affected and the CVSS score is positive; the
\* response actions computed for affected and under_investigation records
\* ({update}, {can_not_fix, update}) never appear in the output document.
C29_ActionAndImpactInEveryStatement ==
    VexBuilt =>
        \A i \in 1..Len(vex_doc.statements) :
            /\ ActionIffNotAffected(vex_doc.statements[i])
            /\ "impact_statement" \in DOMAIN vex_doc.statements[i] =>
                  /\ vex_doc.statements[i].status = "affected"
                  /\ vex_doc.statements[i].impact_statement > 0
            /\ NoOtherResponse(vex_doc.statements[i])

\* what holds of C29: the same for every statement built from a record of the
\* scan; the placeholder statement, emitted when there is no scan or it cannot
\* be read, has status not_affected and no action_statement
C29_ActionAndImpactOfScanStatements ==
    VexBuilt =>
        \A i \in 1..Len(vex_doc.statements) :
            /\ IF VexFromScan
               THEN /\ ActionIffNotAffected(vex_doc.statements[i])
                    /\ "impact_statement" \in DOMAIN vex_doc.statements[i] =>
                          /\ vex_doc.statements[i].status = "affected"
                          /\ extract_cvss_score(vex_trace[i].vuln) > 0
                          /\ vex_doc.statements[i].impact_statement =
                                extract_cvss_score(vex_trace[i].vuln)
               ELSE /\ vex_doc.statements[i].status = "not_affected"
                    /\ "action_statement" \notin DOMAIN vex_doc.statements[i]
                    /\ "impact_statement" \notin DOMAIN vex_doc.statements[i]
            /\ NoOtherResponse(vex_doc.statements[i])

\* an affected record with a score: the statement has the impact and neither
\* an action nor the response update
C29_Witness ==
    /\ VexFromScan
    /\ \E i \in 1..Len(vex_doc.statements) :
          /\ vex_doc.statements[i].status = "affected"
          /\ vex_trace[i].analysis.response = <<"update">>
          /\ "impact_statement" \in DOMAIN vex_doc.statements[i]
          /\ "action_statement" \notin DOMAIN vex_doc.statements[i]

\* a not_affected record: the statement has the action will_not_fix
C29_WitnessAction ==
    /\ VexFromScan
    /\ \E i \in 1..Len(vex_doc.statements) :
          /\ vex_doc.statements[i].status = "not_affected"
          /\ vex_doc.statements[i].action_statement = "will_not_fix"

\* the placeholder statement
C29_WitnessPlaceholder ==
    /\ VexBuilt /\ ~VexFromScan
    /\ Len(vex_doc.statements) = 1
    /\ vex_doc.statements[1].status = "not_affected"
    /\ "action_statement" \notin DOMAIN vex_doc.statements[1]

-----------------------------------------------------------------------------
(* verify_attestations.py: the status field of the report *)

\* some check of the run passed
SomeCheckPassed ==
    \E check \in {"signature", "provenance", "slsa_verifier", "github", "sboms", "vex"} :
        results[check] = "passed"

\* C30: the report's status field is "verified" iff at least one check added a
\* tag to verified_components and "failed" iff none did; it is independent of
\* the exit status, so a run in which the signature or provenance check failed
\* (exit status 1) still reports status "verified" whenever any other check
\* succeeded.
C30_StatusFromComponents ==
    ReportGenerated =>
        /\ report.status = "verified" <=> verified_components # <<>>
        /\ report.status = "failed" <=> verified_components = <<>>
        /\ report.verified_components = verified_components
        /\ SomeCheckPassed <=> verified_components # <<>>
        /\ (exit_status = 1 /\ SomeCheckPassed) => report.status = "verified"

\* the signature check failed, the run ends with status 1, and the report
\* says verified because the VEX check passed
C30_Witness ==
    /\ ReportGenerated /\ RunEnded
    /\ results.signature = "failed"
    /\ exit_status = 1
    /\ verified_components = <<"vex-attestations">>
    /\ report.status = "verified"

\* no check passed: status failed
C30_WitnessFailed ==
    /\ ReportGenerated /\ RunEnded
    /\ verified_components = <<>>
    /\ exit_status = 1
    /\ report.status = "failed"

====
